---- MODULE Spec2Model ----
(***************************************************************************)
(* State-machine model of OpenADRClient (openleadr/client.py): the         *)
(* registration life cycle, the poll dispatcher, the report engine, the    *)
(* outbound report pump and the event intake.                              *)
(*                                                                         *)
(* The client is a set of coroutines on one asyncio loop.  A coroutine     *)
(* chain (run, a fired _poll job, a user call) is modelled by `todo`, the  *)
(* stack of program points still to execute; one step of the chain         *)
(* performs one request to the VTN, takes the VTN's reply as input and     *)
(* runs the code up to the next request.  `trace` is the log of what the   *)
(* current chain sent, received and called.                                *)
(***************************************************************************)
EXTENDS Integers, Sequences, FiniteSets, TLC

(***************************************************************************)
(* Bounds of the model                                                     *)
(***************************************************************************)
MaxAddReport == 2      \* add_report calls before run
MaxRequests == 2       \* entries of report_requests
MaxJobs == 5           \* scheduler jobs
MaxQueue == 2          \* reports waiting in pending_reports
MaxTasks == 2          \* outbound pump tasks ever created
MaxIntervals == 4      \* intervals buffered in one outgoing report
MaxSuspended == 1     \* executions of update_report suspended at a callback
MaxEvents == 2         \* events held in received_events

(***************************************************************************)
(* Values                                                                  *)
(***************************************************************************)
Null == "null"                 \* None, for string-valued attributes
NoFreq == -1                   \* None, for poll_frequency
NoId == -1                     \* request_id key absent
VtnId == 0                     \* a request_id chosen by the VTN
NoPeriod == -1                 \* granularity / report_back_duration absent

OK == 200
MISMATCH == 452                \* on_cancel_party_registration: not for us
INVALID_ID == 452              \* enums.STATUS_CODES.INVALID_ID
DefaultPollFreq == 10          \* timedelta(seconds=10)
MaxPollFreq == 86400           \* timedelta(hours=24)

\* utils.generate_id(): an id that no earlier entry of the chain's trace carries.
generate_id(trace) == Len(trace) + 1

RECURSIVE SeqToSet(_)
SeqToSet(q) == IF q = <<>> THEN {} ELSE {Head(q)} \cup SeqToSet(Tail(q))

\* utils.find_by: index of the first element whose key has the value, 0 when
\* none does
First(hits) == IF hits = {} THEN 0 ELSE CHOOSE i \in hits : \A j \in hits : i <= j

find_by(q, key, value) == First({i \in 1..Len(q) : q[i][key] = value})

RemoveAt(q, i) == SubSeq(q, 1, i - 1) \o SubSeq(q, i + 1, Len(q))

(***************************************************************************)
(* Messages.  One record shape serves for what the client sends, for what  *)
(* the VTN answers and for the calls logged in `trace`; a key that the     *)
(* payload does not carry holds its "absent" value.                        *)
(***************************************************************************)
Message(type) ==
    [dir |-> "send", type |-> type, code |-> OK, request_id |-> NoId,
     registration_id |-> Null, ven_id |-> Null, poll_freq |-> NoFreq,
     has_report_requests |-> FALSE, report_requests |-> <<>>,
     events |-> <<>>, event_responses |-> <<>>, ids |-> <<>>,
     intervals |-> <<>>,
     has_cancel_report |-> FALSE, report_to_follow |-> FALSE]

EmptyPayload == [Message(Null) EXCEPT !.dir = "recv"]

\* What _perform_request hands back: a (type, payload) pair, or the bare None
\* of the empty-body path, which no caller can unpack.
Pair(type, payload) == [unpackable |-> TRUE, type |-> type,
                        payload |-> [payload EXCEPT !.dir = "recv"]]
NoneRet == [unpackable |-> FALSE, type |-> Null, payload |-> EmptyPayload]

TransportOutcomes == {"connect_error", "request_error", "http_error"}
ValidationOutcomes == {"schema_error", "fingerprint_mismatch",
                       "invalid_signature", "parse_error"}
Outcomes == TransportOutcomes \cup {"empty_body"} \cup ValidationOutcomes
              \cup {"ok"}

_perform_request(outcome, vtn_msg) ==
    IF outcome \in TransportOutcomes THEN Pair(Null, EmptyPayload)
    ELSE IF outcome = "empty_body" THEN NoneRet
    ELSE IF outcome \in ValidationOutcomes THEN Pair(Null, EmptyPayload)
    ELSE Pair(vtn_msg.type, vtn_msg)

\* every value _perform_request can return for the VTN messages of `msgs`
Returns(msgs) ==
    {_perform_request(o, EmptyPayload) : o \in Outcomes \ {"ok"}}
      \cup {_perform_request("ok", m) : m \in msgs}

(***************************************************************************)
(* The client state (the attributes of OpenADRClient set in __init__) and  *)
(* the control state of its coroutines.                                    *)
(***************************************************************************)
VARIABLES
    ven_id,              \* self.ven_id
    registration_id,     \* self.registration_id
    poll_frequency,      \* self.poll_frequency, in seconds
    reports,             \* self.reports: the declared reports
    report_callbacks,    \* self.report_callbacks: its keys (report_specifier_id, r_id)
    report_requests,     \* self.report_requests: the active report requests
    incomplete_reports,  \* self.incomplete_reports: report_request_id -> report
    pending_reports,     \* self.pending_reports: the FIFO of outgoing reports
    nulled,              \* the reporting attributes currently rebound to None
    scheduler_running,   \* self.scheduler.running
    jobs,                \* the jobs held by self.scheduler
    tasks,               \* state of every _report_queue_worker task created
    report_queue_task,   \* self.report_queue_task: index into tasks, 0 for None
    in_flight,           \* reports taken by a pump task and not yet sent, oldest first
    received_events,     \* self.received_events
    responded_events,    \* self.responded_events: event_id -> opt type
    opted,               \* history: event_id -> the opt type _on_event last computed for it
    loop_stopped,        \* the event loop was stopped by stop()
    phase,               \* "constructed" until run() is called
    todo,                \* program points the current coroutine chain still runs
    request_id,          \* local variable request_id of run()
    trace,               \* what the current chain sent, received and called
    exc,                 \* the exception that ended the current chain, if any
    suspended,           \* the executions of update_report that wait for a deferred callback
    pump_log             \* history: the last cancel_report a pump reply carried, and what line 1001 did

vars == <<ven_id, registration_id, poll_frequency, reports, report_callbacks,
          report_requests, incomplete_reports, pending_reports, nulled,
          scheduler_running, jobs, tasks, report_queue_task, in_flight,
          received_events, responded_events, opted, loop_stopped, phase, todo,
          request_id, trace, exc, suspended, pump_log>>

\* the state as one value, so that the methods compose as functions on it
Self ==
    [ven_id |-> ven_id, registration_id |-> registration_id,
     poll_frequency |-> poll_frequency, reports |-> reports,
     report_callbacks |-> report_callbacks, report_requests |-> report_requests,
     incomplete_reports |-> incomplete_reports,
     pending_reports |-> pending_reports, nulled |-> nulled,
     scheduler_running |-> scheduler_running, jobs |-> jobs, tasks |-> tasks,
     report_queue_task |-> report_queue_task, in_flight |-> in_flight,
     received_events |-> received_events,
     responded_events |-> responded_events, opted |-> opted,
     loop_stopped |-> loop_stopped,
     phase |-> phase, todo |-> todo, request_id |-> request_id,
     trace |-> trace, exc |-> exc, suspended |-> suspended, err |-> "none"]

Becomes(s) ==
    /\ ven_id' = s.ven_id
    /\ registration_id' = s.registration_id
    /\ poll_frequency' = s.poll_frequency
    /\ reports' = s.reports
    /\ report_callbacks' = s.report_callbacks
    /\ report_requests' = s.report_requests
    /\ incomplete_reports' = s.incomplete_reports
    /\ pending_reports' = s.pending_reports
    /\ nulled' = s.nulled
    /\ scheduler_running' = s.scheduler_running
    /\ jobs' = s.jobs
    /\ tasks' = s.tasks
    /\ report_queue_task' = s.report_queue_task
    /\ in_flight' = s.in_flight
    /\ received_events' = s.received_events
    /\ responded_events' = s.responded_events
    /\ opted' = s.opted
    /\ suspended' = s.suspended
    /\ pump_log' = pump_log
    /\ loop_stopped' = s.loop_stopped
    /\ phase' = s.phase
    /\ todo' = s.todo
    /\ request_id' = s.request_id
    /\ trace' = s.trace
    /\ exc' = s.exc

NoExc == [kind |-> "none", in_poll |-> FALSE]

\* program points: <<function, point>>
PollEnd == <<"_poll", "end">>
InPoll(s) == \E i \in 1..Len(s.todo) : s.todo[i] = PollEnd

\* an exception nobody catches unwinds the whole chain
Raise(s, kind) ==
    [s EXCEPT !.exc = [kind |-> kind, in_poll |-> InPoll(s)], !.todo = <<>>]

RECURSIVE DropFrame(_, _)
DropFrame(stack, fn) ==
    IF stack # <<>> /\ Head(stack)[1] = fn THEN DropFrame(Tail(stack), fn)
    ELSE stack

\* an exception of a callee (s.err) continues in the chain that called it
Propagate(s) ==
    IF s.err = "none" THEN s ELSE Raise([s EXCEPT !.err = "none"], s.err)

\* `return` from function fn: its remaining program points are dropped
Return(s, fn) == [s EXCEPT !.todo = DropFrame(s.todo, fn)]
\* the point at the head of the stack has been executed
Done(s) == [s EXCEPT !.todo = Tail(s.todo)]
\* a call: the callee's points run before the caller's remaining ones
Call(s, points) == [s EXCEPT !.todo = points \o s.todo]

Send(s, m) == [s EXCEPT !.trace = Append(s.trace, [m EXCEPT !.dir = "send"])]
Recv(s, ret) ==
    [s EXCEPT !.trace = Append(s.trace,
        [ret.payload EXCEPT !.dir = IF ret.unpackable THEN "recv" ELSE "none",
                            !.type = ret.type])]
Note(s, fn, id) ==
    [s EXCEPT !.trace = Append(s.trace,
        [Message(fn) EXCEPT !.dir = "call", !.ids = <<id>>])]

\* a user handler raised
Threw(s, fn, id) ==
    [s EXCEPT !.trace = Append(s.trace,
        [Message(fn) EXCEPT !.dir = "raise", !.ids = <<id>>])]

\* the value a method of the client returns to the user
Returned(fn, value) == [Message(fn) EXCEPT !.dir = "return", !.ids = value]

Sent(tr, type) == {i \in 1..Len(tr) : tr[i].dir = "send" /\ tr[i].type = type}
Called(tr, fn) == {i \in 1..Len(tr) : tr[i].dir = "call" /\ tr[i].type = fn}

(***************************************************************************)
(* stop                                                                    *)
(***************************************************************************)
stop(s) ==
    LET s1 == Note(s, "stop", Null)
        s2 == [s1 EXCEPT !.scheduler_running = FALSE]
        s3 == IF s2.report_queue_task # 0
              THEN [s2 EXCEPT !.tasks[s2.report_queue_task] =
                        IF @ = "running" THEN "cancelled" ELSE @]
              ELSE s2
    IN [s3 EXCEPT !.loop_stopped = TRUE]

(***************************************************************************)
(* Registration                                                            *)
(***************************************************************************)
EchoId == -2   \* in a VTN reply: the request_id of the request it answers

Echoed(ret, sent_id) ==
    IF ret.payload.request_id = EchoId
    THEN [ret EXCEPT !.payload.request_id = sent_id]
    ELSE ret

\* run(), lines 140-145: query_registration and what run keeps of its reply
query_registration(s, ret0) ==
    LET rid == generate_id(s.trace)
        ret == Echoed(ret0, rid)
        s1 == Send(s, [Message("oadrQueryRegistration") EXCEPT !.request_id = rid])
        s2 == Recv(s1, ret)
    IN IF ~ret.unpackable THEN Raise(s2, "TypeError")
       ELSE [s2 EXCEPT
              !.registration_id = IF ret.payload.registration_id # Null
                                  THEN ret.payload.registration_id ELSE @,
              !.request_id = ret.payload.request_id]

\* create_party_registration without the default of line 480
MutCreatePartyRegistration(s, req_id, reg_id, ret0) ==
    LET rid == IF req_id = NoId THEN generate_id(s.trace) ELSE req_id
        ret == Echoed(ret0, rid)
        s1 == Send(s, [Message("oadrCreatePartyRegistration") EXCEPT
                          !.request_id = rid, !.registration_id = reg_id,
                          !.ven_id = s.ven_id])
        s2 == Recv(s1, ret)
    IN IF ~ret.unpackable THEN Raise(s2, "TypeError")
       ELSE IF ret.type = Null THEN s2
       ELSE IF ret.payload.code # OK THEN s2
       ELSE LET p == ret.payload
                s3 == [s2 EXCEPT !.registration_id = p.registration_id]
                s4 == IF p.ven_id # Null THEN [s3 EXCEPT !.ven_id = p.ven_id]
                      ELSE s3
            IN IF s4.registration_id # Null
               THEN [s4 EXCEPT !.poll_frequency = p.poll_freq]
               ELSE s4

\* create_party_registration, lines 418-483
create_party_registration(s, req_id, reg_id, ret0) ==
    LET rid == IF req_id = NoId THEN generate_id(s.trace) ELSE req_id
        ret == Echoed(ret0, rid)
        s1 == Send(s, [Message("oadrCreatePartyRegistration") EXCEPT
                          !.request_id = rid, !.registration_id = reg_id,
                          !.ven_id = s.ven_id])
        s2 == Recv(s1, ret)
    IN IF ~ret.unpackable THEN Raise(s2, "TypeError")
       ELSE IF ret.type = Null THEN s2
       ELSE IF ret.payload.code # OK THEN s2
       ELSE LET p == ret.payload
                s3 == [s2 EXCEPT !.registration_id = p.registration_id]
                s4 == IF p.ven_id # Null THEN [s3 EXCEPT !.ven_id = p.ven_id]
                      ELSE s3
            IN IF s4.registration_id # Null
               THEN [s4 EXCEPT !.poll_frequency =
                        IF p.poll_freq # NoFreq THEN p.poll_freq
                        ELSE DefaultPollFreq]
               ELSE s4

\* the check without its `return`
MutCheckRegistration(s, fn) ==
    IF s.registration_id = Null THEN stop(s) ELSE s

\* run() lines 150-153 and create_party_reregistration() lines 494-497
CheckRegistration(s, fn) ==
    IF s.registration_id = Null THEN Return(stop(s), fn) ELSE s

\* run() lines 156-157 and create_party_reregistration() lines 500-501
CreateQueueTask(s) ==
    IF "reports" \in s.nulled THEN s   \* `if None:` is false
    ELSE IF s.reports # <<>>
    THEN [s EXCEPT !.tasks = Append(@, "running"),
                   !.report_queue_task = Len(s.tasks) + 1]
    ELSE s

Job(id, func, trigger, rrid, every) ==
    [id |-> id, func |-> func, trigger |-> trigger, rrid |-> rrid,
     every |-> every]

JobIds(s) == {s.jobs[i].id : i \in 1..Len(s.jobs)}
               \cup {s.report_requests[i].job : i \in 1..Len(s.report_requests)}
NewJobId(s) == CHOOSE n \in 1..(Cardinality(JobIds(s)) + 1) : n \notin JobIds(s)

add_job(s, func, trigger, rrid, every) ==
    [s EXCEPT !.jobs = Append(@, Job(NewJobId(s), func, trigger, rrid, every))]

\* run() lines 165-180
RunSchedule(s) ==
    IF s.poll_frequency = NoFreq THEN Raise(s, "TypeError")
    ELSE LET s1 == IF s.poll_frequency > MaxPollFreq
                   THEN [s EXCEPT !.poll_frequency = MaxPollFreq] ELSE s
             s2 == add_job(s1, "_poll", "interval", Null, s1.poll_frequency)
             s3 == add_job(s2, "_event_status_log", "interval", Null, 0)
             s4 == add_job(s3, "_event_cleanup", "interval", Null, 0)
         IN [s4 EXCEPT !.scheduler_running = TRUE]

(***************************************************************************)
(* Report engine                                                           *)
(***************************************************************************)
Err(s, kind) == [s EXCEPT !.err = kind]

Put(f, k, v) == [x \in DOMAIN f \cup {k} |-> IF x = k THEN v ELSE f[x]]
Drop(f, k) == [x \in DOMAIN f \ {k} |-> f[x]]

ReportIdx(s, rsid) ==
    find_by(s.reports, "report_specifier_id", rsid)
RequestIdx(s, rrid) ==
    find_by(s.report_requests, "report_request_id", rrid)
DescriptionIdx(report, r_id) ==
    find_by(report.report_descriptions, "r_id", r_id)

\* what a user callback can do when called
CallbackOutcomes == {"scalar", "seq2", "KeyError", "ValueError"}

\* intervals whose payload names another datapoint than the one sampled
MutIntervals(r_id, outcome) ==
    IF outcome = "scalar" THEN <<"rX">> ELSE <<"rX", "rX">>

\* lines 899-912: one interval per value returned, each carrying the r_id
Intervals(r_id, outcome) ==
    IF outcome = "scalar" THEN <<r_id>> ELSE <<r_id, r_id>>

RECURSIVE SampleIncremental(_, _, _, _, _, _)
\* update_report lines 893-914: an r_id whose callback is missing or raises
\* KeyError is skipped, any other exception leaves the loop
SampleIncremental(s, rsid, r_ids, i, cb, acc) ==
    IF i > Len(r_ids) THEN [intervals |-> acc, err |-> "none"]
    ELSE LET key == <<rsid, r_ids[i]>>
         IN IF key \notin s.report_callbacks
            THEN SampleIncremental(s, rsid, r_ids, i + 1, cb, acc)
            ELSE IF cb[key] = "KeyError"
            THEN SampleIncremental(s, rsid, r_ids, i + 1, cb, acc)
            ELSE IF cb[key] = "ValueError"
            THEN [intervals |-> acc, err |-> "ValueError"]
            ELSE SampleIncremental(s, rsid, r_ids, i + 1, cb,
                                   acc \o Intervals(r_ids[i], cb[key]))

RECURSIVE SampleFull(_, _, _, _, _, _)
\* update_report lines 875-890: nothing is caught
SampleFull(s, rsid, r_ids, i, cb, acc) ==
    IF i > Len(r_ids) THEN [intervals |-> acc, err |-> "none"]
    ELSE LET key == <<rsid, r_ids[i]>>
         IN IF key \notin s.report_callbacks
            THEN [intervals |-> acc, err |-> "KeyError"]
            ELSE IF cb[key] \in {"KeyError", "ValueError"}
            THEN [intervals |-> acc, err |-> cb[key]]
            ELSE IF cb[key] = "scalar"
            THEN [intervals |-> acc, err |-> "TypeError"]
            ELSE SampleFull(s, rsid, r_ids, i + 1, cb,
                            acc \o Intervals(r_ids[i], cb[key]))

\* update_report without the completion rule of lines 925-935
MutComplete(s, rq, mode, outgoing) ==
    [s EXCEPT !.pending_reports = Append(@, outgoing)]

\* update_report lines 924-938
Complete(s, rq, mode, outgoing) ==
    LET rrid == rq.report_request_id
        g == rq.granularity
        rbd == rq.report_back_duration
    IN IF mode = "incremental" /\ rbd # NoPeriod /\ g = NoPeriod
       THEN Err(s, "AttributeError")
       ELSE IF mode = "incremental" /\ rbd # NoPeriod /\ g > 0 /\ rbd > g
       THEN IF Len(outgoing.intervals) = Len(rq.r_ids) * (rbd \div g)
            THEN IF rrid \in DOMAIN s.incomplete_reports
                 THEN [s EXCEPT !.pending_reports = Append(@, outgoing),
                                !.incomplete_reports = Drop(@, rrid)]
                 ELSE Err(s, "KeyError")
            ELSE [s EXCEPT !.incomplete_reports = Put(@, rrid, outgoing)]
       ELSE [s EXCEPT !.pending_reports = Append(@, outgoing)]

\* lines 868-872: the buffered report of the request, or a new one
Outgoing(s, rrid, report) ==
    IF rrid \in DOMAIN s.incomplete_reports THEN s.incomplete_reports[rrid]
    ELSE [report_request_id |-> rrid,
          report_specifier_id |-> report.report_specifier_id,
          report_name |-> report.report_name,
          intervals |-> <<>>]

\* lines 875-914: the callbacks of the requested r_ids are called
Sample(s, rq, report, cb, outgoing) ==
    IF report.data_collection_mode = "full"
    THEN SampleFull(s, rq.report_specifier_id, rq.r_ids, 1, cb,
                    outgoing.intervals)
    ELSE SampleIncremental(s, rq.report_specifier_id, rq.r_ids, 1, cb,
                           outgoing.intervals)

\* lines 875-938 on the sampled intervals; when a callback raised, what was
\* appended in place to the list of a buffered report stays there
Collect(s, rq, report, outgoing, sampled) ==
    IF sampled.err # "none"
    THEN IF rq.report_request_id \in DOMAIN s.incomplete_reports
            /\ outgoing.intervals # <<>>
         THEN Err([s EXCEPT !.incomplete_reports[rq.report_request_id].intervals
                              = sampled.intervals], sampled.err)
         ELSE Err(s, sampled.err)
    ELSE Complete(s, rq, report.data_collection_mode,
                  [outgoing EXCEPT !.intervals = sampled.intervals])

RECURSIVE FirstRaise(_, _, _, _, _)
\* lines 881-903: the first r_id of the request whose callback is called and
\* raises, 0 when none is
FirstRaise(s, rq, mode, cb, k) ==
    IF k > Len(rq.r_ids) THEN 0
    ELSE LET key == <<rq.report_specifier_id, rq.r_ids[k]>>
         IN IF key \notin s.report_callbacks
            THEN IF mode = "full" THEN 0
                 ELSE FirstRaise(s, rq, mode, cb, k + 1)
            ELSE IF cb[key] \in {"KeyError", "ValueError"} THEN k
            ELSE IF mode = "full" /\ cb[key] = "scalar" THEN 0
            ELSE FirstRaise(s, rq, mode, cb, k + 1)

\* the raise of a report callback is logged in the trace
Callbacks(s, rq, mode, cb) ==
    IF FirstRaise(s, rq, mode, cb, 1) = 0 THEN s
    ELSE Threw(s, "report_callback", rq.r_ids[FirstRaise(s, rq, mode, cb, 1)])

Build(s, rq, report, cb, outgoing) ==
    Collect(Callbacks(s, rq, report.data_collection_mode, cb), rq, report,
            outgoing, Sample(s, rq, report, cb, outgoing))

\* update_report, lines 852-938; s.err is the exception it raises
update_report(s0, rrid, cb) ==
    LET s == Note(s0, "update_report", rrid)
    IN IF {"report_requests", "reports", "incomplete_reports"} \cap s.nulled # {}
       THEN Err(s, "TypeError")
       ELSE IF RequestIdx(s, rrid) = 0 THEN Err(s, "TypeError")
       ELSE LET rq == s.report_requests[RequestIdx(s, rrid)]
            IN IF ReportIdx(s, rq.report_specifier_id) = 0
               THEN Err(s, "AttributeError")
               ELSE Build(s, rq, s.reports[ReportIdx(s, rq.report_specifier_id)],
                          cb, Outgoing(s, rrid,
                                s.reports[ReportIdx(s, rq.report_specifier_id)]))

\* lines 857-898 of an execution whose report callback returns a coroutine
\* that has to wait: the execution keeps its locals report_request and
\* outgoing_report and is suspended at `result = await result`
Suspend(s, rrid, job) ==
    LET rq == s.report_requests[RequestIdx(s, rrid)]
    IN [Note(s, "update_report", rrid) EXCEPT
          !.suspended = Append(@,
             [rq |-> rq, job |-> job,
              outgoing |-> Outgoing(s, rrid,
                             s.reports[ReportIdx(s, rq.report_specifier_id)])])]

\* lines 924-938 for an execution that built a report of its own at line
\* 869: a complete report is not queued itself, line 932 queues whatever
\* the buffer holds under the id; an incomplete one replaces what the buffer
\* holds (line 935)
CompleteOwn(s, rq, own) ==
    LET rrid == rq.report_request_id
        g == rq.granularity
        rbd == rq.report_back_duration
    IN IF rbd # NoPeriod /\ g = NoPeriod THEN Err(s, "AttributeError")
       ELSE IF rbd # NoPeriod /\ g > 0 /\ rbd > g
       THEN IF Len(own.intervals) = Len(rq.r_ids) * (rbd \div g)
            THEN IF "incomplete_reports" \in s.nulled
                 THEN Err(s, "AttributeError")
                 ELSE IF rrid \notin DOMAIN s.incomplete_reports
                 THEN Err(s, "KeyError")
                 ELSE IF "pending_reports" \in s.nulled
                 THEN Err([s EXCEPT !.incomplete_reports = Drop(@, rrid)],
                          "AttributeError")
                 ELSE [s EXCEPT
                         !.pending_reports =
                            Append(@, s.incomplete_reports[rrid]),
                         !.incomplete_reports = Drop(@, rrid)]
            ELSE IF "incomplete_reports" \in s.nulled
                 THEN Err(s, "TypeError")
                 ELSE [s EXCEPT !.incomplete_reports = Put(@, rrid, own)]
       ELSE IF "pending_reports" \in s.nulled THEN Err(s, "AttributeError")
       ELSE [s EXCEPT !.pending_reports = Append(@, own)]

\* lines 898-914 after the await: the awaited callback of the first r_id
\* ends with `first`, the callbacks of the further r_ids are looked up and
\* called
Awaited(s, rq, own, first, cb) ==
    IF first = "ValueError" THEN [intervals |-> own.intervals, err |-> first]
    ELSE IF Len(rq.r_ids) > 1 /\ "report_callbacks" \in s.nulled
    THEN [intervals |-> own.intervals, err |-> "TypeError"]
    ELSE SampleIncremental(s, rq.report_specifier_id, rq.r_ids, 2, cb,
                           IF first = "KeyError" THEN own.intervals
                           ELSE own.intervals
                                  \o Intervals(rq.r_ids[1], first))

\* update_report from line 898 on, for the suspended execution k
Resume(s, k, first, cb) ==
    LET e == s.suspended[k]
        s1 == [s EXCEPT !.suspended = RemoveAt(@, k)]
        sampled == Awaited(s1, e.rq, e.outgoing, first, cb)
    IN IF sampled.err # "none" THEN Err(s1, sampled.err)
       ELSE CompleteOwn(s1, e.rq,
                        [e.outgoing EXCEPT !.intervals = sampled.intervals])

\* report ids and r_ids that the VTN marks invalid ('INVALID' in id)
InvalidIds == {"INVALID_RS", "INVALID_r"}

ReportRequest(rrid, rsid, r_ids, g, rbd, job) ==
    [report_request_id |-> rrid, report_specifier_id |-> rsid,
     report_back_duration |-> rbd, r_ids |-> r_ids, granularity |-> g,
     job |-> job]

RECURSIVE CollectRIds(_, _, _, _)
\* create_report lines 760-802; acc is (requested_r_ids, single, granularity)
CollectRIds(report, payloads, j, acc) ==
    IF j > Len(payloads) THEN acc
    ELSE LET r_id == payloads[j].r_id
             di == DescriptionIdx(report, r_id)
         IN IF di = 0 THEN CollectRIds(report, payloads, j + 1, acc)
            ELSE IF payloads[j].measurement = "mismatch"
            THEN CollectRIds(report, payloads, j + 1, acc)
            ELSE LET rd == report.report_descriptions[di]
                 IN IF acc.granularity = NoPeriod
                    THEN CollectRIds(report, payloads, j + 1,
                           [acc EXCEPT !.granularity = rd.max_period,
                                       !.r_ids = Append(@, r_id)])
                    ELSE IF acc.granularity = 0
                    THEN CollectRIds(report, payloads, j + 1,
                           [acc EXCEPT !.single = TRUE,
                                       !.r_ids = Append(@, r_id)])
                    ELSE IF ~(rd.min_period <= acc.granularity
                              /\ acc.granularity <= rd.max_period)
                    THEN CollectRIds(report, payloads, j + 1, acc)
                    ELSE CollectRIds(report, payloads, j + 1,
                           [acc EXCEPT !.r_ids = Append(@, r_id)])

\* every registry entry made by this call holds the one list requested_r_ids
Share(s, mine, r_ids) ==
    [s EXCEPT !.report_requests =
        [i \in DOMAIN @ |-> IF i \in mine THEN [@[i] EXCEPT !.r_ids = r_ids]
                            ELSE @[i]]]

\* the closure report_callback reads report_request_id when the job fires
BindClosures(s, dated, rrid) ==
    [s EXCEPT !.jobs =
        [i \in DOMAIN @ |-> IF @[i].id \in dated THEN [@[i] EXCEPT !.rrid = rrid]
                            ELSE @[i]]]

Record(s, rq, r_ids, g, job) ==
    [s EXCEPT !.report_requests = Append(@,
        ReportRequest(rq.report_request_id, rq.report_specifier_id, r_ids, g,
                      rq.report_back_duration, job))]

\* create_report lines 786-831, on the locals st = (s, response_code, single,
\* requested_r_ids, report_request_id, mine, dated) and the granularity g
Arrange(st, rq, g, cb) ==
    IF ~st.single /\ rq.report_back_duration = NoPeriod
    THEN [st EXCEPT !.s = Err(@, "AttributeError")]
    ELSE IF ~st.single /\ rq.report_back_duration > 0
    THEN [st EXCEPT
            !.s = Record(add_job(@, "update_report", "cron",
                                 rq.report_request_id,
                                 IF g \in {0, NoPeriod}
                                 THEN rq.report_back_duration ELSE g),
                         rq, st.r_ids, g, NewJobId(st.s)),
            !.mine = @ \cup {Len(st.s.report_requests) + 1}]
    ELSE IF rq.has_report_interval
    THEN [st EXCEPT
            !.s = add_job(Record(@, rq, st.r_ids, g, 0), "update_report",
                          "date", rq.report_request_id, 0),
            !.dated = @ \cup {NewJobId(st.s)},
            !.mine = @ \cup {Len(st.s.report_requests) + 1}]
    ELSE [st EXCEPT
            !.s = update_report(Record(@, rq, st.r_ids, g, 0),
                                rq.report_request_id, cb),
            !.mine = @ \cup {Len(st.s.report_requests) + 1}]

\* lines 751-784 have run: the one list requested_r_ids has grown
Collected(st, rq, acc, cb) ==
    Arrange([st EXCEPT !.s = Share(@, st.mine, acc.r_ids),
                       !.r_ids = acc.r_ids, !.single = acc.single],
            rq, acc.granularity, cb)

\* one iteration of the loop of create_report, lines 733-831
CreateReportStep(st, rq, cb) ==
    IF rq.report_specifier_id \in InvalidIds
       \/ rq.specifier_payloads[1].r_id \in InvalidIds
    THEN [st EXCEPT !.response_code = INVALID_ID]
    ELSE IF {"reports", "report_requests"} \cap st.s.nulled # {}
    THEN [st EXCEPT !.report_request_id = rq.report_request_id,
                    !.s = Err(@, "TypeError")]
    ELSE IF ReportIdx(st.s, rq.report_specifier_id) = 0
    THEN [st EXCEPT
            !.report_request_id = rq.report_request_id,
            !.s = Record(@, rq, st.r_ids, rq.granularity, 0),
            !.mine = @ \cup {Len(st.s.report_requests) + 1}]
    ELSE Collected([st EXCEPT !.report_request_id = rq.report_request_id], rq,
                   CollectRIds(
                     st.s.reports[ReportIdx(st.s, rq.report_specifier_id)],
                     rq.specifier_payloads, 1,
                     [r_ids |-> st.r_ids, single |-> st.single,
                      granularity |-> rq.granularity]),
                   cb)

RECURSIVE CreateReportLoop(_, _, _, _)
CreateReportLoop(st, requests, i, cb) ==
    IF i > Len(requests) \/ st.s.err # "none" THEN st
    ELSE CreateReportLoop(CreateReportStep(st, requests[i], cb),
                          requests, i + 1, cb)

\* lines 833-845: the batch is answered, unless an exception left the loop
Created(st, payload) ==
    IF st.s.err # "none"
    THEN BindClosures(st.s, st.dated, st.report_request_id)
    ELSE Send(BindClosures(st.s, st.dated, st.report_request_id),
              [Message("oadrCreatedReport") EXCEPT
                 !.code = st.response_code,
                 !.request_id = payload.request_id,
                 !.ven_id = st.s.ven_id,
                 !.ids = [i \in 1..Len(payload.report_requests) |->
                            payload.report_requests[i].report_request_id]])

\* create_report, lines 721-845; s.err is the exception it raises
create_report(s0, payload, cb) ==
    Created(CreateReportLoop(
              [s |-> Note(s0, "create_report", Null), response_code |-> OK,
               single |-> FALSE, r_ids |-> <<>>, report_request_id |-> Null,
               mine |-> {}, dated |-> {}],
              payload.report_requests, 1, cb),
            payload)

\* lines 949-950: the closing update_report of a request that has r_ids
FinalUpdate(s, rq, cb) ==
    IF Len(rq.r_ids) > 0 THEN update_report(s, rq.report_request_id, cb) ELSE s

\* lines 952-955: scheduler.remove_job raises for a job the scheduler lost
RemoveJob(s, id) ==
    IF s.err # "none" \/ id = 0 THEN s
    ELSE IF find_by(s.jobs, "id", id) = 0 THEN Err(s, "JobLookupError")
    ELSE [s EXCEPT !.jobs = RemoveAt(@, find_by(s.jobs, "id", id))]

\* lines 957-962: with report_to_follow a last report is made first
Follow(s, payload, cb) ==
    IF s.err = "none" /\ payload.report_to_follow
    THEN update_report(s, payload.ids[1], cb) ELSE s

\* lines 964-981
Canceled(s, payload) ==
    IF s.err # "none" THEN s
    ELSE Send([s EXCEPT !.report_requests =
                  RemoveAt(@, RequestIdx(s, payload.ids[1]))],
              [Message("oadrCanceledReport") EXCEPT
                 !.request_id = payload.request_id,
                 !.ven_id = s.ven_id,
                 !.ids = IF payload.report_to_follow THEN <<payload.ids[1]>>
                         ELSE <<>>])

\* cancel_report, lines 940-981; the cancelled request is payload.ids[1]
cancel_report(s0, payload, cb) ==
    LET s == Note(s0, "cancel_report", payload.ids[1])
    IN IF "report_requests" \in s.nulled THEN Err(s, "TypeError")
       ELSE IF RequestIdx(s, payload.ids[1]) = 0 THEN s
       ELSE Canceled(
              Follow(
                RemoveJob(
                  FinalUpdate(s, s.report_requests[RequestIdx(s, payload.ids[1])],
                              cb),
                  s.report_requests[RequestIdx(s, payload.ids[1])].job),
                payload, cb),
              payload)

(***************************************************************************)
(* Event intake                                                            *)
(***************************************************************************)
HandlerOutcomes == {"optIn", "optOut", "None", "raise"}

RECURSIVE OnEventLoop(_, _, _, _)
\* _on_event lines 1162-1189; st = (s, results, failed)
OnEventLoop(st, events, i, h) ==
    IF i > Len(events) \/ st.failed THEN st
    ELSE
    LET s == st.s
        event == events[i]
        id == event.event_id
        ki == find_by(s.received_events, "event_id", id)
        known == ki # 0
        same == known /\ s.received_events[ki].modification_number
                           = event.modification_number
        stored == IF known /\ ~same
                  THEN Note([s EXCEPT !.received_events =
                                        Append(RemoveAt(@, ki), event)],
                            "on_update_event", id)
                  ELSE IF ~known
                  THEN Note([s EXCEPT !.received_events = Append(@, event)],
                            "on_event", id)
                  ELSE s
        fails == IF same THEN id \notin DOMAIN s.responded_events
                 ELSE h[i] = "raise"
        result == IF same THEN s.responded_events[id] ELSE h[i]
    IN IF fails
       THEN [st EXCEPT !.failed = TRUE,
                       !.s = IF same THEN stored
                             ELSE Threw(stored, IF known THEN "on_update_event"
                                                ELSE "on_event", id)]
       ELSE OnEventLoop(
              [st EXCEPT
                 !.s = [stored EXCEPT !.responded_events =
                          IF event.event_status \in {"completed", "cancelled"}
                             /\ id \in DOMAIN @
                          THEN Drop(@, id) ELSE Put(@, id, result)],
                 !.results = Append(@, result)],
              events, i + 1, h)

\* lines 1190-1198 without the except clause: what the handlers returned
\* before the failure is kept
MutCoerce(st, events) ==
    [i \in 1..Len(events) |->
       IF i > Len(st.results) THEN "optOut"
       ELSE IF st.results[i] \notin {"optIn", "optOut"}
               /\ events[i].response_required = "always"
       THEN "optOut" ELSE st.results[i]]

\* lines 1190-1198
Coerce(st, events) ==
    IF st.failed THEN [i \in 1..Len(events) |-> "optOut"]
    ELSE [i \in 1..Len(events) |->
            IF st.results[i] \notin {"optIn", "optOut"}
               /\ events[i].response_required = "always"
            THEN "optOut" ELSE st.results[i]]

RECURSIVE MutEventResponses(_, _, _)
\* lines 1210-1228 without the test of the active period
MutEventResponses(events, results, i) ==
    IF i > Len(events) THEN <<>>
    ELSE IF events[i].response_required = "always"
    THEN <<[event_id |-> events[i].event_id,
            modification_number |-> events[i].modification_number,
            opt_type |-> results[i]]>> \o MutEventResponses(events, results, i + 1)
    ELSE MutEventResponses(events, results, i + 1)

RECURSIVE EventResponses(_, _, _)
\* lines 1210-1228
EventResponses(events, results, i) ==
    IF i > Len(events) THEN <<>>
    ELSE IF events[i].response_required = "always"
            /\ events[i].period # "completed"
    THEN <<[event_id |-> events[i].event_id,
            modification_number |-> events[i].modification_number,
            opt_type |-> results[i]]>> \o EventResponses(events, results, i + 1)
    ELSE EventResponses(events, results, i + 1)

\* lines 1205-1244: oadrCreatedEvent is sent when a response is due
Respond(st, message) ==
    IF EventResponses(message.events, Coerce(st, message.events), 1) # <<>>
    THEN Send(st.s, [Message("oadrCreatedEvent") EXCEPT
                       !.request_id = message.request_id,
                       !.ven_id = st.s.ven_id,
                       !.event_responses =
                          EventResponses(message.events,
                                         Coerce(st, message.events), 1)])
    ELSE st.s

\* the opt type of every event of the batch, as results holds it after line
\* 1198, is remembered
Remember(st, events) ==
    [st EXCEPT !.s.opted =
       [x \in DOMAIN @ \cup {events[i].event_id : i \in 1..Len(events)} |->
          IF \E i \in 1..Len(events) : events[i].event_id = x
          THEN Coerce(st, events)[find_by(events, "event_id", x)]
          ELSE @[x]]]

\* _on_event, lines 1152-1244
_on_event(s0, message, h) ==
    Respond(Remember(OnEventLoop([s |-> Note(s0, "_on_event", Null),
                                  results |-> <<>>, failed |-> FALSE],
                                 message.events, 1, h),
                     message.events),
            message)

\* lines 1266-1267: the event is no longer relevant
Obsolete(event) ==
    event.event_status = "cancelled" \/ event.period = "completed"

RECURSIVE PopForward(_, _, _)
\* the loop of _event_cleanup with i running upwards over the indices the
\* list had at the start; an index the list no longer has is passed over
PopForward(events, i, n) ==
    IF i > n THEN events
    ELSE IF i <= Len(events) /\ Obsolete(events[i])
    THEN PopForward(RemoveAt(events, i), i + 1, n)
    ELSE PopForward(events, i + 1, n)

\* _event_cleanup with the loop running upwards
MutEventCleanup(s) ==
    [s EXCEPT !.received_events = PopForward(@, 1, Len(@))]

RECURSIVE PopBackward(_, _)
\* lines 1264-1269: i runs from the last index down to the first
PopBackward(events, i) ==
    IF i = 0 THEN events
    ELSE IF Obsolete(events[i]) THEN PopBackward(RemoveAt(events, i), i - 1)
    ELSE PopBackward(events, i - 1)

\* _event_cleanup, lines 1260-1269
_event_cleanup(s) ==
    [s EXCEPT !.received_events = PopBackward(@, Len(@))]

\* _event_status_log, lines 1246-1258
_event_status_log(s) ==
    LET held == s.received_events
    IN [s EXCEPT !.received_events =
          [i \in DOMAIN held |->
             IF held[i].event_status = "cancelled" THEN held[i]
             ELSE [held[i] EXCEPT !.event_status = held[i].period]]]

(***************************************************************************)
(* The methods that talk to the VTN.  `in` holds what the environment      *)
(* supplies to one step: ret, the return value of the request whose reply  *)
(* the code reads; ret2, that of a second request made while handling the  *)
(* first; cb, what each report callback does; h, what the event handler    *)
(* does for each event of the batch.                                       *)
(***************************************************************************)
Unpack(s, ret) == IF ret.unpackable THEN s ELSE Raise(s, "TypeError")

ReportingAttributes == {"report_requests", "reports", "report_callbacks",
                        "incomplete_reports", "pending_reports"}

\* lines 525-531 and 1058-1064: the reporting attributes become None and
\* scheduler.remove_all_jobs() runs
MutWipe(s) ==
    [s EXCEPT !.nulled = ReportingAttributes, !.report_requests = <<>>,
              !.reports = <<>>, !.report_callbacks = {},
              !.incomplete_reports = <<>>, !.pending_reports = <<>>]

Wipe(s) ==
    [s EXCEPT !.nulled = ReportingAttributes, !.report_requests = <<>>,
              !.reports = <<>>, !.report_callbacks = {},
              !.incomplete_reports = <<>>, !.pending_reports = <<>>,
              !.jobs = <<>>]

\* register_reports, lines 693-719
register_reports(s, in) ==
    IF "reports" \in s.nulled THEN Raise(s, "TypeError")
    ELSE LET s1 == Recv(Send(s, [Message("oadrRegisterReport") EXCEPT
                                   !.request_id = generate_id(s.trace),
                                   !.ven_id = s.ven_id]), in.ret)
         IN IF ~in.ret.unpackable THEN Raise(s1, "TypeError")
            ELSE IF in.ret.payload.has_report_requests
            THEN Propagate(create_report(s1, in.ret.payload, in.cb))
            ELSE s1

\* sync_events with request_event, lines 541-577
sync_events(s, in) ==
    LET s1 == Recv(Send(s, [Message("oadrRequestEvent") EXCEPT
                              !.request_id = generate_id(s.trace),
                              !.ven_id = s.ven_id]), in.ret)
    IN IF ~in.ret.unpackable THEN Raise(s1, "TypeError")
       ELSE IF Len(in.ret.payload.events) > 0
       THEN _on_event(s1, in.ret.payload, in.h)
       ELSE s1

\* send_response, lines 1078-1087: the reply is not read
send_response(s) ==
    Send(s, [Message("oadrResponse") EXCEPT !.ven_id = s.ven_id])

\* cancel_party_registration, lines 506-533
cancel_party_registration(s0, in) ==
    LET s == Note(s0, "cancel_party_registration", Null)
    IN
    IF s.registration_id = Null THEN s
    ELSE LET s1 == Recv(Send(s, [Message("oadrCancelPartyRegistration") EXCEPT
                                   !.request_id = generate_id(s.trace),
                                   !.registration_id = s.registration_id,
                                   !.ven_id = s.ven_id]), in.ret)
         IN IF ~in.ret.unpackable THEN Raise(s1, "TypeError")
            ELSE IF in.ret.type = "oadrCanceledPartyRegistration"
                    /\ in.ret.payload.code = OK
            THEN [Wipe(s1) EXCEPT !.registration_id = Null]
            ELSE s1

\* on_cancel_party_registration without the comparison of line 1038
MutOnCancelPartyRegistration(s0, message, in) ==
    LET s == Note(s0, "on_cancel_party_registration", Null)
        canceled(code) == [Message("oadrCanceledPartyRegistration") EXCEPT
                             !.code = code, !.request_id = message.request_id,
                             !.ven_id = s.ven_id,
                             !.registration_id = s.registration_id]
    IN IF s.registration_id = Null THEN s
       ELSE IF message.registration_id = Null THEN s
       ELSE LET s1 == Recv(Send(Wipe(s), canceled(OK)), in.ret2)
            IN IF ~in.ret2.unpackable THEN Raise(s1, "TypeError")
               ELSE [s1 EXCEPT !.registration_id = Null]

\* on_cancel_party_registration, lines 1032-1070
on_cancel_party_registration(s0, message, in) ==
    LET s == Note(s0, "on_cancel_party_registration", Null)
        canceled(code) == [Message("oadrCanceledPartyRegistration") EXCEPT
                             !.code = code, !.request_id = message.request_id,
                             !.ven_id = s.ven_id,
                             !.registration_id = s.registration_id]
    IN IF s.registration_id = Null THEN s
       ELSE IF message.registration_id = Null THEN s
       ELSE IF s.registration_id # message.registration_id
       THEN Unpack(Recv(Send(s, canceled(MISMATCH)), in.ret2), in.ret2)
       ELSE LET s1 == Recv(Send(Wipe(s), canceled(OK)), in.ret2)
            IN IF ~in.ret2.unpackable THEN Raise(s1, "TypeError")
               ELSE [s1 EXCEPT !.registration_id = Null]

\* create_party_reregistration without the check of lines 494-497
MutReregistration ==
    <<<<"_poll", "send_response">>, <<"rereg", "cpr">>,
      <<"rereg", "register_reports">>, <<"rereg", "pump">>,
      <<"rereg", "sync_events">>>>

\* the program points of create_party_reregistration after send_response
Reregistration ==
    <<<<"_poll", "send_response">>, <<"rereg", "cpr">>, <<"rereg", "check">>,
      <<"rereg", "register_reports">>, <<"rereg", "pump">>,
      <<"rereg", "sync_events">>>>

\* _poll with poll, lines 393-400 and 1271-1320
_poll(s, in) ==
    LET s1 == Recv(Send(Note(s, "_poll", Null),
                        [Message("oadrPoll") EXCEPT !.ven_id = s.ven_id]),
                   in.ret)
        type == in.ret.type
        payload == in.ret.payload
    IN IF ~in.ret.unpackable THEN Raise(s1, "TypeError")
       ELSE IF type = Null THEN s1
       ELSE IF type = "oadrResponse" THEN s1
       ELSE IF type = "oadrRequestReregistration"
       THEN Call(Note(s1, "create_party_reregistration", Null), Reregistration)
       ELSE IF type = "oadrDistributeEvent"
       THEN IF Len(payload.events) > 0 THEN _on_event(s1, payload, in.h) ELSE s1
       ELSE IF type = "oadrUpdateReport"
       THEN Raise(s1, "AttributeError")     \* self._on_report does not exist
       ELSE IF type = "oadrCreateReport"
       THEN IF payload.has_report_requests
            THEN Propagate(create_report(s1, payload, in.cb)) ELSE s1
       ELSE IF type = "oadrRegisterReport"
       THEN Unpack(Recv(Send(s1, [Message("oadrRegisteredReport") EXCEPT
                                    !.request_id = payload.request_id,
                                    !.ven_id = s.ven_id]), in.ret2), in.ret2)
       ELSE IF type = "oadrCancelPartyRegistration"
       THEN on_cancel_party_registration(s1, payload, in)
       ELSE IF type = "oadrCancelReport"
       THEN Propagate(cancel_report(s1, payload, in.cb))
       ELSE s1

\* the program points of run
RunPoints ==
    <<<<"run", "query_registration">>, <<"run", "cpr">>, <<"run", "check">>,
      <<"run", "register_reports">>, <<"run", "pump">>,
      <<"run", "sync_events">>, <<"run", "_poll">>, <<"run", "schedule">>>>

PollPoints == <<<<"_poll", "poll">>, PollEnd>>

\* points that make no request: they run as soon as they are reached
Synchronous == {"check", "pump", "_poll", "schedule", "end"}

\* executes the program point at the head of the stack
Exec(s0, in) ==
    LET fn == Head(s0.todo)[1]
        at == Head(s0.todo)[2]
        s == Done(s0)
    IN CASE at = "query_registration" -> query_registration(s, in.ret)
         [] at = "cpr" /\ fn = "run" ->
              create_party_registration([s EXCEPT !.request_id = NoId],
                                        s.request_id, Null, in.ret)
         [] at = "cpr" /\ fn = "rereg" ->
              create_party_registration(s, NoId, s.registration_id, in.ret)
         [] at = "check" -> CheckRegistration(s, fn)
         [] at = "register_reports" -> register_reports(s, in)
         [] at = "pump" -> CreateQueueTask(s)
         [] at = "sync_events" -> sync_events(s, in)
         [] at = "_poll" -> Call(s, PollPoints)
         [] at = "poll" -> _poll(s, in)
         [] at = "send_response" -> send_response(s)
         [] at = "schedule" -> RunSchedule(s)
         [] at = "cancel_party_registration" -> cancel_party_registration(s, in)
         [] OTHER -> s

NoInput == [ret |-> NoneRet, ret2 |-> NoneRet, cb |-> <<>>, h |-> <<>>]

RECURSIVE Drain(_)
Drain(s) ==
    IF s.todo # <<>> /\ Head(s.todo)[2] \in Synchronous
    THEN Drain(Exec(s, NoInput)) ELSE s

\* one step of the chain: a request, its reply, and the code up to the next
\* request
Step(s, in) == Drain(Exec(s, in))

(***************************************************************************)
(* add_report, lines 339-370                                               *)
(***************************************************************************)
GenIds == <<"g1", "g2", "g3", "g4", "g5", "g6">>

UsedIds(s) ==
    UNION {{s.reports[i].report_specifier_id}
             \cup {s.reports[i].report_descriptions[j].r_id :
                     j \in 1..Len(s.reports[i].report_descriptions)} :
           i \in 1..Len(s.reports)}

\* utils.generate_id() for reports and datapoints
FreshId(used) ==
    GenIds[CHOOSE n \in 1..Len(GenIds) :
             GenIds[n] \notin used /\ \A m \in 1..(n - 1) : GenIds[m] \in used]

Descriptions(s) ==
    LET Sum[i \in 0..Len(s.reports)] ==
          IF i = 0 THEN 0
          ELSE Sum[i - 1] + Len(s.reports[i].report_descriptions)
    IN Sum[Len(s.reports)]

add_report(s, a) ==
    LET found == IF a.report_specifier_id # Null
                 THEN First({i \in 1..Len(s.reports) :
                        /\ s.reports[i].report_name = a.report_name
                        /\ s.reports[i].report_specifier_id
                             = a.report_specifier_id})
                 ELSE find_by(s.reports, "report_name", a.report_name)
        rsid == IF a.report_specifier_id # Null THEN a.report_specifier_id
                ELSE FreshId(UsedIds(s))
        s1 == IF found = 0
              THEN [s EXCEPT !.reports = Append(@,
                      [report_specifier_id |-> rsid,
                       report_name |-> a.report_name,
                       data_collection_mode |-> a.data_collection_mode,
                       report_descriptions |-> <<>>])]
              ELSE s
        ri == IF found = 0 THEN Len(s1.reports) ELSE found
        r_id == IF a.r_id # Null THEN a.r_id ELSE FreshId(UsedIds(s1))
    IN [s1 EXCEPT
          !.trace = Append(@, Returned("add_report",
                       <<IF found = 0 THEN rsid ELSE a.report_specifier_id,
                         r_id>>)),
          !.report_callbacks =
              @ \cup {<<s1.reports[ri].report_specifier_id, r_id>>},
          !.reports[ri].report_descriptions = Append(@,
              [r_id |-> r_id, min_period |-> a.min_period,
               max_period |-> a.max_period])]

(***************************************************************************)
(* Initial state: the attributes as __init__ leaves them                   *)
(***************************************************************************)
ConfiguredVenIds == {Null, "V0"}

Init ==
    /\ ven_id \in ConfiguredVenIds
    /\ registration_id = Null
    /\ poll_frequency = NoFreq
    /\ reports = <<>>
    /\ report_callbacks = {}
    /\ report_requests = <<>>
    /\ incomplete_reports = <<>>
    /\ pending_reports = <<>>
    /\ nulled = {}
    /\ scheduler_running = FALSE
    /\ jobs = <<>>
    /\ tasks = <<>>
    /\ report_queue_task = 0
    /\ in_flight = <<>>
    /\ received_events = <<>>
    /\ responded_events = <<>>
    /\ opted = <<>>
    /\ suspended = <<>>
    /\ pump_log = [directive |-> Null, outcome |-> "none"]
    /\ loop_stopped = FALSE
    /\ phase = "constructed"
    /\ todo = <<>>
    /\ request_id = NoId
    /\ trace = <<>>
    /\ exc = NoExc

(***************************************************************************)
(* The environment: what the VTN answers and what the user's code does.    *)
(* A profile P names the set each input is drawn from.                     *)
(***************************************************************************)
WithinBounds(s) ==
    /\ Len(s.report_requests) <= MaxRequests
    /\ Len(s.jobs) <= MaxJobs
    /\ Len(s.pending_reports) <= MaxQueue
    /\ Len(s.tasks) <= MaxTasks
    /\ Len(s.received_events) <= MaxEvents
    /\ \A k \in DOMAIN s.incomplete_reports :
          Len(s.incomplete_reports[k].intervals) <= MaxIntervals
    /\ \A i \in 1..Len(s.pending_reports) :
          Len(s.pending_reports[i].intervals) <= MaxIntervals

Failed == Pair(Null, EmptyPayload)

RetsFor(P, at) ==
    CASE at = "query_registration" -> Returns(P.query)
      [] at = "cpr" -> Returns(P.cpr)
      [] at = "register_reports" -> Returns(P.register)
      [] at = "sync_events" -> Returns(P.events)
      [] at = "poll" -> Returns(P.poll)
      [] at = "cancel_party_registration" -> Returns(P.cancel)
      [] OTHER -> {NoneRet}

Ret2For(ret) ==
    IF ret.type \in {"oadrRegisterReport", "oadrCancelPartyRegistration"}
    THEN {NoneRet, Failed} ELSE {NoneRet}

CbFor(P, s, ret) ==
    IF ret.payload.has_report_requests \/ ret.type = "oadrCancelReport"
    THEN [s.report_callbacks -> P.cbs]
    ELSE {[k \in s.report_callbacks |-> "scalar"]}

HFor(P, ret) ==
    IF Len(ret.payload.events) > 0
    THEN [1..Len(ret.payload.events) -> P.hs]
    ELSE {<<>>}

Inputs(P, s) ==
    UNION {{[ret |-> ret, ret2 |-> ret2, cb |-> cb, h |-> h] :
              ret2 \in Ret2For(ret), cb \in CbFor(P, s, ret), h \in HFor(P, ret)} :
           ret \in RetsFor(P, Head(s.todo)[2])}

Idle == todo = <<>> /\ phase = "running" /\ ~loop_stopped

\* a new coroutine chain starts with an empty trace
Start(points) == [Self EXCEPT !.todo = points, !.trace = <<>>, !.exc = NoExc]

\* the state a method leaves is computed once
Take(s) == \E v \in {s} : WithinBounds(v) /\ Becomes(v)

(***************************************************************************)
(* Actions                                                                 *)
(***************************************************************************)
\* the user declares a report before run
AddReport(P) ==
    /\ phase = "constructed"
    /\ Descriptions(Self) < MaxAddReport
    /\ \E a \in P.adds : Becomes(add_report(Self, a))

\* the user starts run(): its first request is oadrQueryRegistration
Run(P) ==
    /\ phase = "constructed"
    /\ LET s == Note([Start(RunPoints) EXCEPT !.phase = "running"], "run", Null)
       IN \E in \in Inputs(P, s) : Take(Step(s, in))

\* the current chain performs its next request
Continue(P) ==
    /\ todo # <<>>
    /\ \E in \in Inputs(P, Self) : Take(Step(Self, in))

\* the scheduler fires the _poll job
FirePoll(P) ==
    /\ Idle /\ scheduler_running
    /\ \E i \in 1..Len(jobs) : jobs[i].func = "_poll"
    /\ LET s == Start(PollPoints)
       IN \E in \in Inputs(P, s) : Take(Step(s, in))

\* the scheduler logs the exception of a job and goes on
Logged(r) ==
    [r EXCEPT !.err = "none", !.exc = [kind |-> r.err, in_poll |-> FALSE]]

\* a job with a date trigger leaves the scheduler when it fires
Fired(s, i) ==
    IF s.jobs[i].trigger = "date" THEN [s EXCEPT !.jobs = RemoveAt(@, i)] ELSE s

\* the scheduler fires a sampling job; it runs one instance of a job at a
\* time
FireUpdateReport(P) ==
    /\ Idle /\ scheduler_running
    /\ \E i \in 1..Len(jobs) :
         /\ jobs[i].func = "update_report"
         /\ \A k \in 1..Len(suspended) : suspended[k].job # jobs[i].id
         /\ \E cb \in [report_callbacks -> P.cbs] :
              Take(Logged(update_report(Fired(Start(<<>>), i), jobs[i].rrid, cb)))

\* the scheduler fires a sampling job whose callback is deferred: the
\* execution reaches the await of line 898 and the event loop runs others.
\* Followed are the executions that start without a buffered report, for an
\* incremental report whose first callback is registered.
FireUpdateReportDeferred ==
    /\ Idle /\ scheduler_running
    /\ Len(suspended) < MaxSuspended
    /\ {"report_requests", "reports", "incomplete_reports",
        "report_callbacks"} \cap nulled = {}
    /\ \E i \in 1..Len(jobs) :
         /\ jobs[i].func = "update_report"
         /\ \A k \in 1..Len(suspended) : suspended[k].job # jobs[i].id
         /\ RequestIdx(Self, jobs[i].rrid) # 0
         /\ jobs[i].rrid \notin DOMAIN incomplete_reports
         /\ LET rq == report_requests[RequestIdx(Self, jobs[i].rrid)]
            IN /\ ReportIdx(Self, rq.report_specifier_id) # 0
               /\ reports[ReportIdx(Self, rq.report_specifier_id)]
                     .data_collection_mode = "incremental"
               /\ rq.r_ids # <<>>
               /\ <<rq.report_specifier_id, rq.r_ids[1]>> \in report_callbacks
         /\ Take(Suspend(Fired(Start(<<>>), i), jobs[i].rrid, jobs[i].id))

\* the deferred callback of a suspended execution ends and the event loop
\* resumes the execution; the scheduler logs what it raises
ResumeUpdateReport(P) ==
    /\ Idle
    /\ \E k \in 1..Len(suspended), first \in P.cbs,
          cb \in [report_callbacks -> P.cbs] :
         Take(Logged(Resume(Start(<<>>), k, first, cb)))

FireEventStatusLog ==
    /\ Idle /\ scheduler_running
    /\ \E i \in 1..Len(jobs) : jobs[i].func = "_event_status_log"
    /\ Becomes(_event_status_log(Note(Start(<<>>), "_event_status_log", Null)))

FireEventCleanup ==
    /\ Idle /\ scheduler_running
    /\ \E i \in 1..Len(jobs) : jobs[i].func = "_event_cleanup"
    /\ Becomes(_event_cleanup(Note(Start(<<>>), "_event_cleanup", Null)))

\* the user calls cancel_party_registration()
CancelPartyRegistration(P) ==
    /\ Idle
    /\ LET s == Start(<<<<"user", "cancel_party_registration">>>>)
       IN \E in \in Inputs(P, s) : Take(Step(s, in))

\* _report_queue_worker, lines 988-997: a running pump task that holds no
\* report takes the head of the queue and starts its request, which suspends
\* in _perform_request
ReportQueueWorker ==
    /\ ~loop_stopped
    /\ "pending_reports" \notin nulled
    /\ pending_reports # <<>>
    /\ \E i \in 1..Len(tasks) :
         /\ tasks[i] = "running"
         /\ \A k \in 1..Len(in_flight) : in_flight[k].task # i
         /\ in_flight' = Append(in_flight,
                                [task |-> i, report |-> Head(pending_reports)])
    /\ pending_reports' = Tail(pending_reports)
    /\ UNCHANGED <<ven_id, registration_id, poll_frequency, reports,
                   report_callbacks, report_requests, incomplete_reports,
                   nulled, scheduler_running, jobs, tasks, report_queue_task,
                   received_events, responded_events, opted, loop_stopped, phase,
                   todo, request_id, trace, exc, suspended, pump_log>>

\* line 1001, `'cancel_report' in response_payload`, where response_payload
\* is what _perform_request returned, not unpacked (line 996 is commented
\* out): on the bare None the test raises TypeError; on the (type, payload)
\* pair it compares the string with the message type and with the payload
\* dict, which never equals a string, so a key of the payload is not seen;
\* were it true, line 1002 would index the pair with a string (TypeError).
\* No path calls cancel_report.
PumpOutcome(ret) ==
    IF ~ret.unpackable THEN "TypeError"
    ELSE IF ret.type = "cancel_report" THEN "TypeError"
    ELSE "skipped"

\* the report_request_id of the cancel_report the VTN put in its reply
Directive(ret) ==
    IF ret.unpackable /\ ret.payload.has_cancel_report
    THEN ret.payload.ids[1] ELSE Null

\* _report_queue_worker, lines 997-1002: the oadrUpdateReport of a pump task
\* reaches the VTN and _perform_request returns; a TypeError of line 1001 is
\* raised outside the inner try and ends the task.  The task then returns to
\* line 989, where self.pending_reports.get() raises AttributeError when the
\* queue has been set to None.
ReportQueueWorkerReply(P) ==
    /\ ~loop_stopped
    /\ \E k \in 1..Len(in_flight), ret \in Returns(P.acks) :
         /\ tasks[in_flight[k].task] = "running"
         /\ in_flight' = RemoveAt(in_flight, k)
         /\ tasks' = IF PumpOutcome(ret) # "skipped"
                     THEN [tasks EXCEPT ![in_flight[k].task] = "failed"]
                     ELSE IF "pending_reports" \in nulled
                     THEN [tasks EXCEPT ![in_flight[k].task] = "no_queue"]
                     ELSE tasks
         /\ pump_log' = IF Directive(ret) = Null THEN pump_log
                         ELSE [directive |-> Directive(ret),
                               outcome |-> PumpOutcome(ret)]
    /\ UNCHANGED <<ven_id, registration_id, poll_frequency, reports,
                   report_callbacks, report_requests, incomplete_reports,
                   pending_reports, nulled, scheduler_running, jobs,
                   report_queue_task, received_events, responded_events, opted,
                   loop_stopped, phase, todo, request_id, trace, exc, suspended>>

NextP(P) ==
    \/ AddReport(P)
    \/ Run(P)
    \/ Continue(P)
    \/ FirePoll(P)
    \/ FireUpdateReport(P)
    \/ FireEventStatusLog
    \/ FireEventCleanup
    \/ CancelPartyRegistration(P)
    \/ ReportQueueWorker
    \/ ReportQueueWorkerReply(P)

(***************************************************************************)
(* Inputs                                                                  *)
(***************************************************************************)
AddArgs(name, rsid, r_id, mode) ==
    [report_name |-> name, report_specifier_id |-> rsid, r_id |-> r_id,
     data_collection_mode |-> mode, min_period |-> 10, max_period |-> 3600]

Payload(r_id) == [r_id |-> r_id, measurement |-> "absent"]

\* an oadrReportRequest of the VTN
Request(rrid, rsid, r_ids, g, rbd, at) ==
    [report_request_id |-> rrid, report_specifier_id |-> rsid,
     specifier_payloads |-> [i \in 1..Len(r_ids) |-> Payload(r_ids[i])],
     granularity |-> g, report_back_duration |-> rbd,
     has_report_interval |-> at]

WithRequests(type, batch) ==
    [Message(type) EXCEPT !.request_id = VtnId, !.has_report_requests = TRUE,
                          !.report_requests = batch]

Event(id, modification_number, status, required, period) ==
    [event_id |-> id, modification_number |-> modification_number,
     event_status |-> status, response_required |-> required,
     period |-> period]

WithEvents(events) ==
    [Message("oadrDistributeEvent") EXCEPT !.request_id = VtnId,
                                           !.events = events]

Registered(code, reg, ven, freq) ==
    [Message("oadrCreatedPartyRegistration") EXCEPT
       !.code = code, !.request_id = EchoId, !.registration_id = reg,
       !.ven_id = ven, !.poll_freq = freq]

QueryReplies ==
    {[Message("oadrCreatedPartyRegistration") EXCEPT
        !.registration_id = reg, !.request_id = id] :
     reg \in {Null, "R1"}, id \in {NoId, VtnId, EchoId}}

RegistrationReplies ==
    {Registered(OK, reg, ven, freq) :
        reg \in {Null, "R1", "R2"}, ven \in {Null, "V1"},
        freq \in {NoFreq, 15, 90000}}
      \cup {Registered(463, "R2", "V1", 15)}

CancelReplies ==
    {[Message("oadrCanceledPartyRegistration") EXCEPT !.code = code] :
        code \in {OK, 463}}
      \cup {Message("oadrResponse")}

CancelReport(rrid, follow) ==
    [Message("oadrCancelReport") EXCEPT !.request_id = VtnId,
                                        !.ids = <<rrid>>,
                                        !.report_to_follow = follow]

\* an oadrUpdatedReport that carries an oadrCancelReport
UpdatedWithCancel(rrid, follow) ==
    [Message("oadrUpdatedReport") EXCEPT !.has_cancel_report = TRUE,
                                         !.ids = <<rrid>>,
                                         !.report_to_follow = follow]

CancelRegistration(reg) ==
    [Message("oadrCancelPartyRegistration") EXCEPT
       !.request_id = VtnId, !.registration_id = reg]

Accumulating == Request("rq1", "RS1", <<"r1">>, 10, 30, FALSE)
SingleShot == Request("rq2", "RS1", <<"r1">>, 0, 30, FALSE)
Periodic == Request("rq1", "RS1", <<"r1">>, 10, 10, FALSE)

\* the profile of the handshake of run: every reply to the two registration
\* requests, little else
Handshake ==
    [adds |-> {AddArgs("TELEMETRY_USAGE", "RS1", "r1", "incremental")},
     query |-> QueryReplies,
     cpr |-> RegistrationReplies,
     register |-> {Message("oadrRegisteredReport")},
     events |-> {Message("oadrDistributeEvent")},
     poll |-> {Message("oadrResponse"),
               WithRequests("oadrCreateReport", <<Periodic>>)},
     cancel |-> {Message("oadrCanceledPartyRegistration")},
     acks |-> {Message("oadrUpdatedReport")},
     cbs |-> {"scalar"},
     hs |-> {"optIn"}]

Next == NextP(Handshake)

Spec == Init /\ [][Next]_vars

\* the profile of the poll dispatcher: one registration, every message type
\* a poll can return
Dispatch ==
    [adds |-> {AddArgs("TELEMETRY_USAGE", "RS1", "r1", "incremental")},
     query |-> {Message("oadrCreatedPartyRegistration")},
     cpr |-> {Registered(OK, "R2", "V1", 15), Registered(OK, Null, "V1", 15)},
     register |-> {Message("oadrRegisteredReport")},
     events |-> {Message("oadrDistributeEvent")},
     poll |-> {Message("oadrResponse"),
               Message("oadrRequestReregistration"),
               WithEvents(<<Event("e1", 0, "active", "always", "active")>>),
               [Message("oadrUpdateReport") EXCEPT !.request_id = VtnId],
               WithRequests("oadrCreateReport", <<Periodic>>),
               [Message("oadrRegisterReport") EXCEPT !.request_id = VtnId],
               CancelRegistration("R2"), CancelRegistration("RX"),
               CancelReport("rq1", FALSE),
               Message("oadrCreatedOpt")},
     cancel |-> CancelReplies,
     acks |-> {Message("oadrUpdatedReport")},
     cbs |-> {"scalar"},
     hs |-> {"optIn"}]

NextDispatch == NextP(Dispatch)

SpecDispatch == Init /\ [][NextDispatch]_vars

\* the profile of re-registration: polls that bring
\* oadrRequestReregistration to a client with a declared report and, after
\* oadrCreateReport, a sampling job; the VTN grants the registration,
\* refuses it, or answers without a registration_id
Reregister ==
    [Dispatch EXCEPT
       !.cpr = {Registered(OK, "R2", "V1", 15), Registered(OK, Null, "V1", 15),
                Registered(463, "R2", "V1", 15)},
       !.poll = {Message("oadrResponse"),
                 Message("oadrRequestReregistration"),
                 WithRequests("oadrCreateReport", <<Periodic>>)}]

NextReregister == NextP(Reregister)

SpecReregister == Init /\ [][NextReregister]_vars

\* the profile of cancellation: the user cancels the registration, and polls
\* bring oadrCancelPartyRegistration for the client's registration and for
\* another one, to a client that holds a sampling job and an event
Cancellation ==
    [Dispatch EXCEPT
       !.cpr = {Registered(OK, "R2", "V1", 15)},
       !.poll = {Message("oadrResponse"),
                 CancelRegistration("R2"), CancelRegistration("RX"),
                 WithRequests("oadrCreateReport", <<Periodic>>),
                 WithEvents(<<Event("e1", 0, "active", "always", "active")>>)}]

NextCancellation == NextP(Cancellation)

SpecCancellation == Init /\ [][NextCancellation]_vars

\* report requests of the VTN: of a datapoint the report does not have, of
\* an invalid report, of a valid datapoint followed by an invalid one
Unknown == Request("rq3", "RS1", <<"rX">>, 0, 30, FALSE)
InvalidReport == Request("rq4", "INVALID_RS", <<"r1">>, 10, 10, FALSE)
InvalidSecond == Request("rq5", "RS1", <<"r1", "INVALID_r">>, 10, 10, FALSE)

\* the profile of the report requests: one registration, polls that bring
\* oadrCreateReport
Intake ==
    [adds |-> {AddArgs("TELEMETRY_USAGE", "RS1", "r1", "incremental")},
     query |-> {Message("oadrCreatedPartyRegistration")},
     cpr |-> {Registered(OK, "R2", "V1", 15)},
     register |-> {Message("oadrRegisteredReport")},
     events |-> {Message("oadrDistributeEvent")},
     poll |-> {Message("oadrResponse")}
                \cup {WithRequests("oadrCreateReport", <<rq>>) :
                        rq \in {SingleShot, Periodic, Unknown, InvalidReport,
                                InvalidSecond}},
     cancel |-> {Message("oadrCanceledPartyRegistration")},
     acks |-> {Message("oadrUpdatedReport")},
     cbs |-> {"scalar", "ValueError"},
     hs |-> {"optIn"}]

NextIntake == NextP(Intake)

SpecIntake == Init /\ [][NextIntake]_vars

\* a report request whose granularity exceeds its report_back_duration
Sparse == Request("rq2", "RS1", <<"r1">>, 30, 10, FALSE)

\* the profile of sampling: an incremental report with one datapoint, a
\* request that accumulates three samples and one that does not accumulate;
\* the callback returns a number
Sampling ==
    [Intake EXCEPT
       !.poll = {Message("oadrResponse"),
                 WithRequests("oadrCreateReport", <<Accumulating>>),
                 WithRequests("oadrCreateReport", <<Sparse>>)},
       !.cbs = {"scalar"}]

NextSampling == NextP(Sampling)

SpecSampling == Init /\ [][NextSampling]_vars

\* a report request to be sampled once, at the start of its report_interval
Dated == Request("rq6", "RS1", <<"r1">>, 0, 30, TRUE)

\* the profile of cancel_report: polls bring a periodic and a dated report
\* request and oadrCancelReport for each of them
Cancelling ==
    [Intake EXCEPT
       !.poll = {Message("oadrResponse"),
                 WithRequests("oadrCreateReport", <<Periodic>>),
                 WithRequests("oadrCreateReport", <<Dated>>),
                 CancelReport("rq1", FALSE), CancelReport("rq1", TRUE),
                 CancelReport("rq6", FALSE)},
       !.acks = {Message("oadrUpdatedReport"),
                 UpdatedWithCancel("rq1", FALSE)},
       !.cbs = {"scalar"}]

NextCancelling == NextP(Cancelling)

SpecCancelling == Init /\ [][NextCancelling]_vars

\* the profile of re-delivery: polls that bring one event, active or
\* cancelled, in its first version or in a modified one, again and again;
\* the handlers opt in or out
Redelivery ==
    [Intake EXCEPT
       !.poll = {Message("oadrResponse"),
                 WithRequests("oadrCreateReport", <<Periodic>>),
                 WithEvents(<<Event("e1", 0, "active", "always", "active")>>),
                 WithEvents(<<Event("e1", 1, "cancelled", "always", "active")>>)},
       !.cbs = {"scalar"},
       !.hs = {"optIn", "optOut"}]

NextRedelivery == NextP(Redelivery)

SpecRedelivery == Init /\ [][NextRedelivery]_vars

\* batches of two events: none is due a response, the first is
NoneDue == <<Event("e1", 0, "active", "never", "active"),
             Event("e2", 0, "active", "always", "completed")>>
FirstDue == <<Event("e1", 0, "active", "always", "active"),
              Event("e2", 0, "active", "always", "completed")>>

\* the profile of event batches: polls that bring two events at a time to
\* handlers that opt in or raise
Batches ==
    [Intake EXCEPT
       !.poll = {Message("oadrResponse"),
                 WithRequests("oadrCreateReport", <<Periodic>>),
                 WithEvents(NoneDue), WithEvents(FirstDue)},
       !.cbs = {"scalar"},
       !.hs = {"optIn", "raise"}]

NextBatches == NextP(Batches)

SpecBatches == Init /\ [][NextBatches]_vars

\* the profile of a renewed registration: the VTN grants every registration,
\* asks for a poll every 15 s or every 25 h, and answers oadrRegisterReport
\* with or without the report request it wants
Renewal ==
    [Reregister EXCEPT
       !.cpr = {Registered(OK, "R2", "V1", 15),
                Registered(OK, "R2", "V1", 90000)},
       !.register = {Message("oadrRegisteredReport"),
                     WithRequests("oadrRegisteredReport", <<Periodic>>)}]

NextRenewal == NextP(Renewal)

SpecRenewal == Init /\ [][NextRenewal]_vars

\* the profile of the declarations: add_report with and without
\* report_specifier_id and r_id, for one report name and for two
Declaring ==
    [Intake EXCEPT
       !.adds = {AddArgs("TELEMETRY_USAGE", "RS1", "r1", "incremental"),
                 AddArgs("TELEMETRY_USAGE", Null, Null, "incremental"),
                 AddArgs("TELEMETRY_STATUS", "RS1", "r1", "incremental")},
       !.poll = {Message("oadrResponse"),
                 WithRequests("oadrCreateReport", <<Periodic>>)},
       !.cbs = {"scalar"}]

NextDeclaring == NextP(Declaring)

SpecDeclaring == Init /\ [][NextDeclaring]_vars

\* the profile of the event cleanup: a batch of a cancelled event followed
\* by a completed one, and a batch of one active event
Purging ==
    [Intake EXCEPT
       !.poll = {Message("oadrResponse"),
                 WithRequests("oadrCreateReport", <<Periodic>>),
                 WithEvents(<<Event("e1", 0, "cancelled", "always", "active"),
                              Event("e2", 0, "active", "always", "completed")>>),
                 WithEvents(<<Event("e2", 0, "active", "always", "active")>>)},
       !.cbs = {"scalar"}]

NextPurging == NextP(Purging)

SpecPurging == Init /\ [][NextPurging]_vars

\* report requests that travel with another one in a batch: of a report the
\* client has not declared, and at a granularity below the sampling rate
Undeclared == Request("rq7", "RSX", <<"r1">>, 10, 10, FALSE)
TooFine == Request("rq8", "RS1", <<"r1">>, 5, 10, FALSE)

\* a report request whose report is complete after one sample
Short == Request("rq9", "RS1", <<"r1">>, 10, 15, FALSE)

\* the profile of batches of two report requests, and of a request that
\* needs one sample
Several ==
    [Intake EXCEPT
       !.poll = {Message("oadrResponse"),
                 WithRequests("oadrCreateReport", <<Periodic>>),
                 WithRequests("oadrCreateReport", <<Short>>),
                 WithRequests("oadrCreateReport", <<Periodic, Undeclared>>),
                 WithRequests("oadrCreateReport", <<Periodic, TooFine>>),
                 WithRequests("oadrCreateReport", <<SingleShot, Periodic>>),
                 WithRequests("oadrCreateReport", <<Dated, SingleShot>>)},
       !.cbs = {"scalar"}]

NextSeveral == NextP(Several)

SpecSeveral == Init /\ [][NextSeveral]_vars

\* the profile of an abandoned buffer: a request that accumulates three
\* samples, and its cancellation
Abandoning ==
    [Sampling EXCEPT
       !.poll = {Message("oadrResponse"),
                 WithRequests("oadrCreateReport", <<Accumulating>>),
                 CancelReport("rq1", FALSE)}]

NextAbandoning == NextP(Abandoning)

SpecAbandoning == Init /\ [][NextAbandoning]_vars

\* the client with report callbacks that are coroutines, under the profile
\* of a request that accumulates three samples and its cancellation
NextDeferred ==
    \/ NextAbandoning
    \/ FireUpdateReportDeferred
    \/ ResumeUpdateReport(Abandoning)

SpecDeferred == Init /\ [][NextDeferred]_vars

\* the profile of a buffer that is to be flushed: a request that
\* accumulates three samples; the callback returns a number or a sequence of
\* two values, or raises KeyError, which skips the r_id
Flushing ==
    [Sampling EXCEPT
       !.poll = {Message("oadrResponse"),
                 WithRequests("oadrCreateReport", <<Accumulating>>)},
       !.cbs = {"scalar", "seq2", "KeyError"}]

NextFlushing == NextP(Flushing)

\* the event loop runs a chain whose reply has arrived, and the scheduler
\* keeps firing the cron jobs it holds
SpecFlushing ==
    /\ Init /\ [][NextFlushing]_vars
    /\ WF_vars(Continue(Flushing))
    /\ WF_vars(FireUpdateReport(Flushing))

(***************************************************************************)
(* Properties                                                              *)
(***************************************************************************)
IsCall(e, fn) == e.dir = "call" /\ e.type = fn
IsSend(e, type) == e.dir = "send" /\ e.type = type

\* the current chain is run(); its trace is <<run, oadrQueryRegistration,
\* reply, oadrCreatePartyRegistration, reply, ...>>
RunChain == trace # <<>> /\ IsCall(trace[1], "run")

\* the state in which run has just read the reply to
\* oadrCreatePartyRegistration and made its check
Handshaken ==
    /\ RunChain
    /\ Len(trace) \in {5, 6}
    /\ trace[5].dir = "recv"

Accepted(reply) == reply.type # Null /\ reply.code = OK

RequestedFreq(reply) ==
    IF reply.poll_freq # NoFreq THEN reply.poll_freq ELSE DefaultPollFreq

HandshakeOrder ==
    /\ Len(trace) >= 2 => IsSend(trace[2], "oadrQueryRegistration")
    /\ Len(trace) >= 4 =>
         /\ IsSend(trace[4], "oadrCreatePartyRegistration")
         /\ IF trace[3].request_id # NoId
            THEN trace[4].request_id = trace[3].request_id
            ELSE trace[4].request_id # trace[2].request_id

\* C1 as stated: run sends oadrQueryRegistration first and
\* oadrCreatePartyRegistration second, with the echoed request_id when there
\* is one and a fresh one otherwise; after any reply with response code 200
\* the client holds the returned registration_id and ven_id and
\* poll_frequency is the requested one, or 10 s when the VTN omits it.
C1_AsStated ==
    RunChain =>
      /\ HandshakeOrder
      /\ (Handshaken /\ Accepted(trace[5])) =>
           /\ registration_id = trace[5].registration_id
           /\ trace[5].ven_id # Null => ven_id = trace[5].ven_id
           /\ poll_frequency = RequestedFreq(trace[5])

\* C1 amended: as C1, but poll_frequency takes the requested value (or 10 s)
\* only when the 200 reply carries a registration_id; when it carries none,
\* registration_id is null and poll_frequency keeps having no value.
C1_Handshake ==
    RunChain =>
      /\ HandshakeOrder
      /\ (Handshaken /\ Accepted(trace[5])) =>
           /\ registration_id = trace[5].registration_id
           /\ trace[5].ven_id # Null => ven_id = trace[5].ven_id
           /\ IF trace[5].registration_id # Null
              THEN poll_frequency = RequestedFreq(trace[5])
              ELSE poll_frequency = NoFreq

\* scenario 1 of the specification, and the default of 10 s
C1_Witness ==
    /\ Handshaken
    /\ trace[3].registration_id = "R1" /\ trace[3].request_id = VtnId
    /\ trace[4].request_id = VtnId
    /\ Accepted(trace[5]) /\ trace[5].poll_freq = 15
    /\ registration_id = "R2" /\ ven_id = "V1" /\ poll_frequency = 15

LaterSteps(tr) ==
    Sent(tr, "oadrRegisterReport") \cup Sent(tr, "oadrRequestEvent")
      \cup Sent(tr, "oadrPoll")

HandshakeStep ==
    todo # <<>> /\ Head(todo) = <<"run", "cpr">> /\ trace' # trace

\* C2: when the step of run that ends the handshake leaves registration_id
\* null, stop has been called and run is over with no oadrRegisterReport,
\* oadrRequestEvent or oadrPoll sent, no pump task and no scheduler job; and
\* once the loop is stopped nothing is sent, scheduled or spawned any more.
C2_NoRegistrationIsFatal ==
    [][/\ (HandshakeStep /\ exc'.kind = "none" /\ registration_id' = Null) =>
            /\ loop_stopped' /\ todo' = <<>>
            /\ Called(trace', "stop") # {}
            /\ LaterSteps(trace') = {}
            /\ tasks' = <<>> /\ jobs' = <<>>
       /\ loop_stopped =>
            trace' = trace /\ tasks' = tasks /\ jobs' = jobs]_vars

C2_Witness ==
    /\ Handshaken /\ Len(trace) = 6 /\ IsCall(trace[6], "stop")
    /\ registration_id = Null /\ loop_stopped /\ todo = <<>>

\* C3 as stated: whenever the oadrCreatePartyRegistration exchange of run
\* fails (no usable reply or a response code other than 200), the client has
\* stopped and sends no oadrRegisterReport, oadrRequestEvent or oadrPoll,
\* whatever the oadrQueryRegistration reply was.
C3_RegistrationFailureIsFatal ==
    (RunChain /\ Len(trace) >= 5 /\ trace[5].dir = "recv"
       /\ ~Accepted(trace[5]))
      => (loop_stopped /\ LaterSteps(trace) = {})

\* the requests of create_party_reregistration
ReregistrationOrder ==
    <<"oadrResponse", "oadrCreatePartyRegistration", "oadrRegisterReport",
      "oadrRequestEvent">>

\* the place of oadrPoll in the chain's trace, 0 when it made no poll
PollAt(tr) == First(Sent(tr, "oadrPoll"))

\* the reply to the chain's poll has the given type
Polled(tr, type) ==
    /\ PollAt(tr) # 0 /\ Len(tr) > PollAt(tr)
    /\ tr[PollAt(tr) + 1].dir = "recv" /\ tr[PollAt(tr) + 1].type = type

\* the requests of create_party_reregistration that the chain has sent
\* since its poll, in the order of sending
Resent(tr) ==
    LET from == SubSeq(tr, PollAt(tr) + 2, Len(tr))
        mine == SelectSeq(from, LAMBDA e :
                   e.dir = "send" /\ \E i \in 1..4 : e.type = ReregistrationOrder[i])
    IN [i \in 1..Len(mine) |-> mine[i].type]

Finished == todo = <<>> /\ exc.kind = "none"

\* C4 as stated: when a poll has returned oadrRequestReregistration and the
\* chain has run to its end, the client has sent oadrResponse,
\* oadrCreatePartyRegistration, oadrRegisterReport and oadrRequestEvent, in
\* exactly this order.
C4_AsStated ==
    (Polled(trace, "oadrRequestReregistration") /\ Finished)
      => Resent(trace) = ReregistrationOrder

\* the step in which the chain sends the oadrCreatePartyRegistration of
\* create_party_reregistration
ReregistrationStep ==
    todo # <<>> /\ Head(todo) = <<"rereg", "cpr">> /\ trace' # trace

\* C4 amended: after a poll that returned oadrRequestReregistration the client
\* sends oadrResponse, oadrCreatePartyRegistration carrying its current
\* registration_id, oadrRegisterReport and oadrRequestEvent in this order, the
\* last two only when it holds a registration_id once the create-party
\* exchange is over: what it has sent is always a prefix of that sequence,
\* all of it when the chain ends with a registration_id and without an
\* exception, and the first two followed by stop when it ends without one.
C4_Reregistration ==
    [][/\ Polled(trace', "oadrRequestReregistration") =>
            /\ \E n \in 0..4 : Resent(trace') = SubSeq(ReregistrationOrder, 1, n)
            /\ (Finished' /\ registration_id' # Null) =>
                  Resent(trace') = ReregistrationOrder
            /\ (Finished' /\ registration_id' = Null) =>
                  /\ Resent(trace') = SubSeq(ReregistrationOrder, 1, 2)
                  /\ Called(trace', "stop") # {}
       /\ ReregistrationStep =>
            \E i \in Sent(trace', "oadrCreatePartyRegistration") :
               /\ i = Len(trace)+ 1
               /\ trace'[i].registration_id = registration_id]_vars

C4_Witness ==
    /\ Polled(trace, "oadrRequestReregistration") /\ Finished
    /\ Resent(trace) = ReregistrationOrder
    /\ registration_id = "R2"

Acknowledged ==
    /\ trace # <<>> /\ IsCall(trace[1], "cancel_party_registration")
    /\ Len(trace) >= 3
    /\ IsSend(trace[2], "oadrCancelPartyRegistration")
    /\ trace[3].dir = "recv"
    /\ trace[3].type = "oadrCanceledPartyRegistration" /\ trace[3].code = OK

\* C5: once cancel_party_registration has been acknowledged with
\* oadrCanceledPartyRegistration and response code 200, registration_id is
\* null and the scheduler holds no jobs.
C5_Cancelled == Acknowledged => (registration_id = Null /\ jobs = <<>>)

\* the acknowledged cancellation of a client that run had registered and
\* given its jobs
C5_Witness ==
    /\ Acknowledged /\ scheduler_running /\ trace[2].registration_id = "R2"
    /\ registration_id = Null /\ jobs = <<>>

\* the step in which a chain polls: the first step of a fired _poll job,
\* which starts a trace of its own, or the step of run that is at its poll
PollStep ==
    \/ /\ todo = <<>> /\ trace' # trace
       /\ trace' # <<>> /\ IsCall(trace'[1], "_poll")
    \/ todo # <<>> /\ Head(todo) = <<"_poll", "poll">>

\* the jobs are the ones held before, but for the three that run adds when
\* the poll was its own
JobsKept ==
    \/ jobs' = jobs
    \/ /\ IsCall(trace'[1], "run") /\ Len(jobs') = Len(jobs) + 3
       /\ SubSeq(jobs', 1, Len(jobs)) = jobs
       /\ \A i \in (Len(jobs) + 1)..Len(jobs') : jobs'[i].trigger = "interval"

\* C6: when a poll returns oadrCancelPartyRegistration with a registration_id
\* other than the client's own, the client answers
\* oadrCanceledPartyRegistration with response code 452 and registration_id,
\* reports, callbacks, report requests, incomplete buffer, pending queue and
\* scheduler jobs stay as they were.
C6_ForeignCancellation ==
    [][(/\ PollStep /\ registration_id # Null
        /\ Polled(trace', "oadrCancelPartyRegistration")
        /\ trace'[PollAt(trace') + 1].registration_id
              \notin {Null, registration_id})
       => /\ \E i \in Sent(trace', "oadrCanceledPartyRegistration") :
               trace'[i].code = MISMATCH
          /\ registration_id' = registration_id
          /\ reports' = reports /\ report_callbacks' = report_callbacks
          /\ report_requests' = report_requests
          /\ incomplete_reports' = incomplete_reports
          /\ pending_reports' = pending_reports
          /\ nulled' = nulled
          /\ JobsKept]_vars

C6_Witness ==
    /\ Polled(trace, "oadrCancelPartyRegistration")
    /\ trace[PollAt(trace) + 1].registration_id = "RX"
    /\ \E i \in Sent(trace, "oadrCanceledPartyRegistration") :
          trace[i].code = MISMATCH
    /\ registration_id = "R2" /\ reports # <<>>
    /\ report_requests # <<>> /\ Len(jobs) > 3

\* the handler that the dispatch table of _poll names for a message type
Handler(type) ==
    CASE type = "oadrRequestReregistration" -> "create_party_reregistration"
      [] type = "oadrDistributeEvent" -> "_on_event"
      [] type = "oadrUpdateReport" -> "_on_report"
      [] type = "oadrCreateReport" -> "create_report"
      [] type = "oadrCancelPartyRegistration" -> "on_cancel_party_registration"
      [] type = "oadrCancelReport" -> "cancel_report"
      [] OTHER -> Null

\* C7 as stated: every poll reply is dispatched to the handler of its type:
\* the handler has been called (oadrRegisteredReport has been sent for
\* oadrRegisterReport), and for oadrResponse, no message or an unknown type
\* nothing is called or sent after the poll.
C7_Dispatch ==
    (PollAt(trace) # 0 /\ Len(trace) > PollAt(trace)
       /\ trace[PollAt(trace) + 1].dir = "recv")
      => LET type == trace[PollAt(trace) + 1].type
         IN IF Handler(type) # Null
            THEN Called(trace, Handler(type)) # {}
            ELSE IF type = "oadrRegisterReport"
            THEN Sent(trace, "oadrRegisteredReport") # {}
            ELSE \A i \in (PollAt(trace) + 2)..Len(trace) :
                    trace[i].dir \notin {"send", "call"}
                      \/ IsCall(trace[1], "run")

\* C8 as stated: no exception leaves _poll, whatever the request's outcome
\* and the message type.
C8_PollNeverRaises == ~exc.in_poll

\* the place in the chain's trace of its last call of create_report, 0 when
\* it made none; the message with the report requests is the entry before it
IntakeAt(tr) ==
    IF Called(tr, "create_report") = {} THEN 0
    ELSE CHOOSE i \in Called(tr, "create_report") :
            \A j \in Called(tr, "create_report") : j <= i

Batch(tr) == tr[IntakeAt(tr) - 1].report_requests

\* the calls of update_report for a report request since create_report began
Updates(tr, rrid) ==
    {i \in Called(tr, "update_report") : i > IntakeAt(tr) /\ tr[i].ids = <<rrid>>}

\* the step in which a chain runs create_report
IntakeStep ==
    /\ trace' # trace /\ IntakeAt(trace') # 0
    /\ todo = <<>> \/ IntakeAt(trace') > Len(trace)

\* C9 as stated: when create_report has handled a report request with
\* granularity 0 for a declared report, to be sampled at once, update_report
\* has been called exactly once for it, its report is on the pending queue
\* and the scheduler holds no recurring job for it, whatever its
\* report_back_duration.
C9_SingleSample ==
    [][IntakeStep =>
         \A n \in 1..Len(Batch(trace')) :
            LET rq == Batch(trace')[n]
            IN (/\ rq.granularity = 0 /\ ~rq.has_report_interval
                /\ \E i \in 1..Len(reports') :
                      reports'[i].report_specifier_id = rq.report_specifier_id)
               =>
                 /\ Cardinality(Updates(trace', rq.report_request_id)) = 1
                 /\ \E i \in 1..Len(pending_reports') :
                       pending_reports'[i].report_request_id
                          = rq.report_request_id
                 /\ \A i \in 1..Len(jobs') :
                       ~(jobs'[i].trigger = "cron"
                         /\ jobs'[i].rrid = rq.report_request_id)]_vars

IsInvalid(rq) ==
    \/ rq.report_specifier_id \in InvalidIds
    \/ \E j \in 1..Len(rq.specifier_payloads) :
          rq.specifier_payloads[j].r_id \in InvalidIds

\* C10 as stated: when create_report has handled a batch with a report
\* request whose report_specifier_id or r_id contains INVALID, the batch has
\* been answered with oadrCreatedReport carrying INVALID_ID, and for that
\* request there is no active report request, no job and no call of
\* update_report.
C10_InvalidRejected ==
    (IntakeAt(trace) # 0 /\ Finished) =>
       \A n \in 1..Len(Batch(trace)) :
          LET rq == Batch(trace)[n]
          IN IsInvalid(rq) =>
               /\ \E i \in Sent(trace, "oadrCreatedReport") :
                     i > IntakeAt(trace) /\ trace[i].code = INVALID_ID
               /\ RequestIdx(Self, rq.report_request_id) = 0
               /\ \A i \in 1..Len(jobs) : jobs[i].rrid # rq.report_request_id
               /\ Updates(trace, rq.report_request_id) = {}

\* the requests of the chain that answer its last create_report batch
Answers(tr) == {i \in Sent(tr, "oadrCreatedReport") : i > IntakeAt(tr)}

\* C11 as stated: every batch handled by create_report has been answered with
\* exactly one oadrCreatedReport, which lists the report_request_id of every
\* request of the batch, rejected or not, and carries response code 200 when
\* no request of the batch has INVALID in its report_specifier_id or r_id.
C11_BatchAnswered ==
    IntakeAt(trace) # 0 =>
       /\ Cardinality(Answers(trace)) = 1
       /\ \A i \in Answers(trace) :
             /\ trace[i].ids = [n \in 1..Len(Batch(trace)) |->
                                  Batch(trace)[n].report_request_id]
             /\ (\A n \in 1..Len(Batch(trace)) : ~IsInvalid(Batch(trace)[n]))
                   => trace[i].code = OK

\* the reports that the step places on the pending queue
Enqueued ==
    IF Len(pending_reports') > Len(pending_reports)
    THEN {pending_reports'[i] :
            i \in (Len(pending_reports) + 1)..Len(pending_reports')}
    ELSE {}

\* the report request a report of this step belongs to: the registry entry
\* after the step, or the one before it when the step removed the request
RequestOf(report) ==
    IF find_by(report_requests', "report_request_id", report.report_request_id) # 0
    THEN report_requests'[find_by(report_requests', "report_request_id",
                                  report.report_request_id)]
    ELSE report_requests[find_by(report_requests, "report_request_id",
                                 report.report_request_id)]

IsIncremental(report) ==
    \E i \in 1..Len(reports) :
       /\ reports[i].report_specifier_id = report.report_specifier_id
       /\ reports[i].data_collection_mode = "incremental"

ExpectedLen(rq) ==
    Len(rq.r_ids) * (rq.report_back_duration \div rq.granularity)

Emitted == Len(in_flight') < Len(in_flight)

\* C14 as stated: the reports are sent to the VTN in the order in which they
\* were placed on the pending queue; the pump tasks take them in that order,
\* so the report that is sent is the one that was taken first.
C14_EmitInOrder ==
    [][Emitted => in_flight' = Tail(in_flight)]_vars

\* C15 as stated, its safety part: whatever the outcome of an
\* oadrUpdateReport request (transport error, HTTP non-200, empty body,
\* invalid reply or a normal ack), the pump task that made it keeps running,
\* so that it takes the reports enqueued afterwards.
C15_PumpSurvives ==
    [][Emitted => tasks' = tasks]_vars

\* C16 as stated: once stop has run, the scheduler is shut down and no pump
\* task is running, whatever the client did before, re-registrations
\* included.
C16_Stopped ==
    (Called(trace, "stop") # {} /\ todo = <<>>) =>
       /\ ~scheduler_running
       /\ \A i \in 1..Len(tasks) : tasks[i] # "running"

\* the place of the call of cancel_report in the chain's trace, 0 if none
CancelAt(tr) == First(Called(tr, "cancel_report"))

\* the step in which a chain runs cancel_report to its end
CancelStep ==
    /\ trace' # trace /\ CancelAt(trace') # 0 /\ exc'.kind = "none"
    /\ RequestIdx(Self, trace'[CancelAt(trace')].ids[1]) # 0

\* C17 as stated: when cancel_report has completed for a report_request_id
\* that was in the registry, no request of the registry has that id, the
\* scheduler holds no job, recurring or one-shot, that calls update_report
\* for it, oadrCanceledReport has been sent, and update_report has run once
\* more if the request had accepted r_ids.
C17_Cancelled ==
    [][CancelStep =>
         LET at == CancelAt(trace')
             rrid == trace'[at].ids[1]
             rq == report_requests[RequestIdx(Self, rrid)]
         IN /\ \A i \in 1..Len(report_requests') :
                  report_requests'[i].report_request_id # rrid
            /\ \A i \in 1..Len(jobs') :
                  ~(jobs'[i].func = "update_report" /\ jobs'[i].rrid = rrid)
            /\ \E i \in Sent(trace', "oadrCanceledReport") : i > at
            /\ rq.r_ids # <<>> =>
                  \E i \in Called(trace', "update_report") :
                     i > at /\ trace'[i].ids = <<rrid>>]_vars

\* the last call of _on_event in a trace, 0 when there is none
EventAt(tr) ==
    IF Called(tr, "_on_event") = {} THEN 0
    ELSE CHOOSE i \in Called(tr, "_on_event") :
            \A j \in Called(tr, "_on_event") : j <= i

\* the events of the oadrDistributeEvent that _on_event was called with
Events(tr) == tr[EventAt(tr) - 1].events

\* the step in which a chain runs _on_event
EventStep ==
    /\ trace' # trace
    /\ EventAt(trace') > (IF todo = <<>> THEN 0 ELSE Len(trace))

\* the handler calls that _on_event made for an event
Handled(tr, id) ==
    {i \in Called(tr, "on_event") \cup Called(tr, "on_update_event") :
        i > EventAt(tr) /\ tr[i].ids = <<id>>}

\* the event_responses that _on_event sent
Responses(tr) ==
    IF \E i \in Sent(tr, "oadrCreatedEvent") : i > EventAt(tr)
    THEN tr[CHOOSE i \in Sent(tr, "oadrCreatedEvent") : i > EventAt(tr)]
           .event_responses
    ELSE <<>>

\* the event is held in received_events with the same modification_number
Redelivered(event) ==
    \E k \in 1..Len(received_events) :
       /\ received_events[k].event_id = event.event_id
       /\ received_events[k].modification_number = event.modification_number

\* C18 as stated: when an event that is in received_events arrives again
\* with the same modification_number, neither on_event nor on_update_event
\* is called for it, and the opt type sent for it is the one chosen before.
C18_Redelivery ==
    [][EventStep =>
         \A i \in 1..Len(Events(trace')) :
            Redelivered(Events(trace')[i]) =>
               /\ Handled(trace', Events(trace')[i].event_id) = {}
               /\ \A k \in 1..Len(Responses(trace')) :
                     Responses(trace')[k].event_id = Events(trace')[i].event_id
                        => Responses(trace')[k].opt_type
                              = opted[Events(trace')[i].event_id]]_vars

\* a response is due for the event
Due(event) ==
    event.response_required = "always" /\ event.period # "completed"

\* C19: the event_responses of oadrCreatedEvent hold one entry for each
\* event of the batch whose response_required is always and whose active
\* period is not computed as completed, and for no other; when no event of
\* the batch is such, no oadrCreatedEvent is sent.
C19_ResponsesDue ==
    [][EventStep =>
         /\ Len(Responses(trace')) = Len(SelectSeq(Events(trace'), Due))
         /\ \A k \in 1..Len(Responses(trace')) :
               Responses(trace')[k].event_id
                  = SelectSeq(Events(trace'), Due)[k].event_id
         /\ SelectSeq(Events(trace'), Due) = <<>> =>
               \A i \in Sent(trace', "oadrCreatedEvent") : i < EventAt(trace')]_vars

\* _on_event has answered a batch of which one event was due a response and
\* another was not
C19_Witness ==
    /\ EventAt(trace) # 0
    /\ Responses(trace) # <<>>
    /\ Len(Responses(trace)) < Len(Events(trace))

\* the handlers that raised in the last call of _on_event
Thrown(tr) ==
    {i \in 1..Len(tr) : tr[i].dir = "raise" /\ i > EventAt(tr)}

\* C20: when on_event or on_update_event raises while a batch is taken in,
\* every event_response sent for the batch has opt_type optOut.
C20_FailureOptsOut ==
    [][(EventStep /\ Thrown(trace') # {}) =>
         \A k \in 1..Len(Responses(trace')) :
            Responses(trace')[k].opt_type = "optOut"]_vars

\* the handler of the second event of a batch raised after that of the first
\* had returned, and the first event was answered
C20_Witness ==
    /\ EventAt(trace) # 0
    /\ \E i \in Thrown(trace) :
          /\ trace[i].ids = <<"e2">>
          /\ Handled(trace, "e1") # {}
    /\ \E k \in 1..Len(Responses(trace)) : Responses(trace)[k].event_id = "e1"

\* the scheduler runs and holds the _poll job
PollingScheduled ==
    /\ scheduler_running
    /\ \E i \in 1..Len(jobs) : jobs[i].func = "_poll"

\* C21 as stated: whenever polling is scheduled, poll_frequency is at least
\* 1 s and at most 24 h; a value above 24 h that the VTN requested, at the
\* first registration or at a later one, has been replaced by 24 h.
C21_PollFrequencyClamped ==
    PollingScheduled => (1 <= poll_frequency /\ poll_frequency <= MaxPollFreq)

\* the chain has re-registered and has then taken in a batch of report
\* requests for declared reports, and has ended without an exception
Reestablished ==
    /\ todo = <<>> /\ exc.kind = "none"
    /\ Called(trace, "create_party_reregistration") # {}
    /\ IntakeAt(trace) > First(Called(trace, "create_party_reregistration"))
    /\ \A k \in 1..Len(Batch(trace)) :
          ReportIdx(Self, Batch(trace)[k].report_specifier_id) # 0

\* the scheduler jobs that call update_report for a report request
SamplingJobs(rrid) ==
    {i \in 1..Len(jobs) : jobs[i].func = "update_report" /\ jobs[i].rrid = rrid}

\* C22 as stated: after a re-registration followed by an oadrCreateReport
\* exchange, the registry holds each report_request_id of the exchange
\* exactly once, with at most one sampling job, and no other request.
C22_SubscriptionsRenewed ==
    Reestablished =>
       /\ \A k \in 1..Len(Batch(trace)) :
             /\ Cardinality({i \in 1..Len(report_requests) :
                   report_requests[i].report_request_id
                      = Batch(trace)[k].report_request_id}) = 1
             /\ Cardinality(SamplingJobs(Batch(trace)[k].report_request_id)) <= 1
       /\ \A i \in 1..Len(report_requests) :
             \E k \in 1..Len(Batch(trace)) :
                report_requests[i].report_request_id
                   = Batch(trace)[k].report_request_id

\* the step is a call of add_report
AddStep == phase = "constructed" /\ phase' = "constructed" /\ reports' # reports

\* the report that add_report created or extended
Extended(i) ==
    \/ i > Len(reports)
    \/ Len(reports'[i].report_descriptions) > Len(reports[i].report_descriptions)

\* C23 as stated: add_report returns the pair (report_specifier_id, r_id)
\* under which it registered the callback, and the report_specifier_id it
\* returns is that of the report the description was added to.
C23_AddReportReturns ==
    [][AddStep =>
         /\ <<trace'[Len(trace')].ids[1], trace'[Len(trace')].ids[2]>>
               \in report_callbacks'
         /\ \E i \in 1..Len(reports') :
               /\ Extended(i)
               /\ trace'[Len(trace')].ids[1] = reports'[i].report_specifier_id]_vars

\* the (report_specifier_id, r_id) pairs of the descriptions of a report
Pairs(report) ==
    {<<report.report_specifier_id, report.report_descriptions[k].r_id>> :
        k \in 1..Len(report.report_descriptions)}

\* C24 as stated: after any add_report call no two declared reports share a
\* report_specifier_id, no report holds two descriptions with the same r_id,
\* every (report_specifier_id, r_id) pair keys a callback of its own, and a
\* call with the report_name and report_specifier_id of a declared report
\* creates no second report.
C24_DeclarationsUnique ==
    [][AddStep =>
         /\ \A i, j \in 1..Len(reports') :
               i # j => reports'[i].report_specifier_id
                           # reports'[j].report_specifier_id
         /\ \A i \in 1..Len(reports') :
               Cardinality(Pairs(reports'[i]))
                  = Len(reports'[i].report_descriptions)
         /\ \A i \in 1..Len(reports') : Pairs(reports'[i]) \subseteq report_callbacks'
         /\ Len(reports') > Len(reports) =>
               \A i \in 1..Len(reports) :
                  ~(/\ reports[i].report_name
                          = reports'[Len(reports')].report_name
                    /\ reports[i].report_specifier_id
                          = reports'[Len(reports')].report_specifier_id)]_vars

\* the chain of the step is a run of _event_cleanup
CleanupStep == trace' = Note(Start(<<>>), "_event_cleanup", Null).trace

\* C25: a run of _event_cleanup removes from received_events the events whose
\* stored status is cancelled or whose active period computes to completed,
\* and leaves the other events in their order.
C25_CleanupExact ==
    [][CleanupStep =>
         received_events' = SelectSeq(received_events,
                                      LAMBDA e : ~(e.event_status = "cancelled"
                                                   \/ e.period = "completed"))]_vars

\* _event_cleanup has removed two events that stood next to each other
C25_Witness ==
    /\ trace = Note(Start(<<>>), "_event_cleanup", Null).trace
    /\ received_events = <<>>
    /\ "e2" \in DOMAIN responded_events

\* the r_ids that a declared report describes
Declared(report) ==
    {report.report_descriptions[k].r_id : k \in 1..Len(report.report_descriptions)}

\* C26 as stated: every request of the registry has accepted r_ids that the
\* report it references declares; a request that references a report the
\* client has not declared has no r_ids and no job.
C26_AcceptedAreDeclared ==
    \A i \in 1..Len(report_requests) :
       IF ReportIdx(Self, report_requests[i].report_specifier_id) = 0
       THEN report_requests[i].r_ids = <<>> /\ report_requests[i].job = 0
       ELSE SeqToSet(report_requests[i].r_ids) \subseteq
               Declared(reports[ReportIdx(Self,
                                 report_requests[i].report_specifier_id)])

\* C27 as stated: every request of the registry has granularity 0, or a
\* granularity within the sampling rate declared for each of its accepted
\* r_ids.
C27_GranularityInEnvelope ==
    \A i \in 1..Len(report_requests) :
       ReportIdx(Self, report_requests[i].report_specifier_id) # 0 =>
          \/ report_requests[i].granularity = 0
          \/ \A k \in 1..Len(report_requests[i].r_ids) :
                LET report == reports[ReportIdx(Self,
                                  report_requests[i].report_specifier_id)]
                    di == DescriptionIdx(report, report_requests[i].r_ids[k])
                IN di # 0 =>
                     /\ report.report_descriptions[di].min_period
                           <= report_requests[i].granularity
                     /\ report_requests[i].granularity
                           <= report.report_descriptions[di].max_period

\* C28 as stated: when create_report has handled a batch, every report
\* request of it with granularity > 0 and report_back_duration > 0 has a
\* recurring job at its granularity that calls update_report for its
\* report_request_id, whatever the other requests of the batch are.
C28_RecurringJob ==
    [][(IntakeStep /\ exc'.kind = "none") =>
         \A n \in 1..Len(Batch(trace')) :
            LET rq == Batch(trace')[n]
            IN (/\ ~IsInvalid(rq)
                /\ rq.granularity > 0 /\ rq.report_back_duration > 0
                /\ ReportIdx(Self, rq.report_specifier_id) # 0)
               => \E i \in 1..Len(jobs') :
                     /\ jobs'[i].func = "update_report"
                     /\ jobs'[i].trigger = "cron"
                     /\ jobs'[i].rrid = rq.report_request_id
                     /\ jobs'[i].every = rq.granularity]_vars

\* the calls of update_report that the step adds to the trace
NewUpdates ==
    {i \in Called(trace', "update_report") :
        trace' # trace /\ (todo = <<>> \/ i > Len(trace))}

\* the step is one call of update_report for a request of the registry
SampleStep(rrid) ==
    /\ Cardinality(NewUpdates) = 1
    /\ \A i \in NewUpdates : trace'[i].ids = <<rrid>>
    /\ RequestIdx(Self, rrid) # 0
    /\ ReportIdx(Self, report_requests[RequestIdx(Self, rrid)].report_specifier_id) # 0

\* the intervals buffered for a request before the step
Buffered(rrid) ==
    IF rrid \in DOMAIN incomplete_reports
    THEN Len(incomplete_reports[rrid].intervals) ELSE 0

\* the r_ids of a request that have a callback; each callback of the
\* profile returns one value
Sampled(rq) ==
    Cardinality({k \in 1..Len(rq.r_ids) :
                   <<rq.report_specifier_id, rq.r_ids[k]>> \in report_callbacks})

\* the sampling call brings the report of an accumulating request to its
\* full length
Completes(rq) ==
    /\ reports[ReportIdx(Self, rq.report_specifier_id)].data_collection_mode
          = "incremental"
    /\ rq.granularity > 0 /\ rq.report_back_duration > rq.granularity
    /\ Buffered(rq.report_request_id) + Sampled(rq) = ExpectedLen(rq)

\* C29 as stated: when a sampling call for an incremental request with
\* report_back_duration > granularity > 0 brings the number of intervals to
\* len(r_ids) * floor(report_back_duration / granularity), on the first call
\* as on a later one, the report is put on the pending queue and
\* incomplete_reports has no entry for the request.
C29_CompleteIsQueued ==
    [][\A rrid \in {report_requests[i].report_request_id :
                       i \in 1..Len(report_requests)} :
          (SampleStep(rrid) /\ Completes(report_requests[RequestIdx(Self, rrid)]))
             => /\ Len(pending_reports') = Len(pending_reports) + 1
                /\ pending_reports'[Len(pending_reports')].report_request_id = rrid
                /\ rrid \notin DOMAIN incomplete_reports']_vars

\* a report callback raised in the call of update_report that the step made
CallbackRaised ==
    \E i \in 1..Len(trace') :
       /\ trace'[i].dir = "raise" /\ trace'[i].type = "report_callback"
       /\ \E j \in NewUpdates : j < i

\* C30 as stated: when a report callback raises in update_report, the call
\* still reaches the completion decision: the report of the request is
\* buffered in incomplete_reports or put on the pending queue.
C30_RaiseSkipsOneRId ==
    [][\A rrid \in {report_requests[i].report_request_id :
                       i \in 1..Len(report_requests)} :
          (SampleStep(rrid) /\ CallbackRaised)
             => \/ /\ Len(pending_reports') = Len(pending_reports) + 1
                   /\ pending_reports'[Len(pending_reports')].report_request_id
                         = rrid
                \/ /\ rrid \in DOMAIN incomplete_reports'
                   /\ rrid \notin DOMAIN incomplete_reports
                        \/ incomplete_reports'[rrid] # incomplete_reports[rrid]]_vars

\* C31 as stated: at every moment at most one _report_queue_worker task
\* exists that can take from the pending queue.
C31_SinglePump ==
    Cardinality({i \in 1..Len(tasks) : tasks[i] = "running"}) <= 1

\* C32 as stated: whenever the reply to an oadrUpdateReport of the pump
\* carries a cancel_report, the pump calls cancel_report for the report
\* request it names.
C32_DirectiveObeyed ==
    pump_log.directive # Null => pump_log.outcome = "cancel_report"

\* C33 as stated: when cancel_report has sent its oadrCanceledReport for an
\* oadrCancelReport with report_to_follow, that message lists the request
\* among its pending reports and update_report runs for the request after
\* it; without report_to_follow the message lists nothing, and after the
\* closing sample of the request no further update_report runs.
C33_CanceledThenFollowUp ==
    \A i \in Sent(trace, "oadrCanceledReport") :
       LET at == CancelAt(trace)
       IN IF trace[at - 1].report_to_follow
          THEN /\ trace[i].ids = trace[at].ids
               /\ \E j \in Called(trace, "update_report") :
                     j > i /\ trace[j].ids = trace[at].ids
          ELSE /\ trace[i].ids = <<>>
               /\ Cardinality({j \in Called(trace, "update_report") :
                                 j > at}) <= 1
               /\ \A j \in Called(trace, "update_report") : j < i

\* the loop of _on_event reaches line 1185 for the event: a re-delivered
\* event finds its earlier opt type
Intaken(event) ==
    Redelivered(event) => event.event_id \in DOMAIN responded_events

\* C34 as stated: after _on_event has taken in, without a failure, an event
\* delivered as completed or cancelled, responded_events holds no entry for
\* its event_id, also when the event is seen for the first time; an event of
\* any other status has an entry.
C34_EndedNotRemembered ==
    [][(/\ EventStep /\ Thrown(trace') = {}
        /\ \A i \in 1..Len(Events(trace')) : Intaken(Events(trace')[i])) =>
         \A i \in 1..Len(Events(trace')) :
            IF Events(trace')[i].event_status \in {"completed", "cancelled"}
            THEN Events(trace')[i].event_id \notin DOMAIN responded_events'
            ELSE Events(trace')[i].event_id \in DOMAIN responded_events']_vars

\* C35 as stated: every key of responded_events is the event_id of an event
\* held in received_events; an event that _event_cleanup has purged has no
\* entry.
C35_RespondedAreReceived ==
    \A id \in DOMAIN responded_events :
       \E k \in 1..Len(received_events) : received_events[k].event_id = id

\* C36 as stated: when create_report has handled a batch with a report
\* request for a declared report that is sampled once and deferred to the
\* start of its report_interval, the scheduler holds a date job that calls
\* update_report for the report_request_id of that request, also when
\* further report requests follow it in the batch.
C36_DeferredSamplesItself ==
    [][IntakeStep =>
         \A n \in 1..Len(Batch(trace')) :
            LET rq == Batch(trace')[n]
            IN (/\ rq.granularity = 0 /\ rq.has_report_interval
                /\ \E i \in 1..Len(reports') :
                      reports'[i].report_specifier_id = rq.report_specifier_id)
               => \E j \in 1..Len(jobs') :
                     /\ jobs'[j].func = "update_report"
                     /\ jobs'[j].trigger = "date"
                     /\ jobs'[j].rrid = rq.report_request_id]_vars

\* C37 as stated: every key of incomplete_reports is the report_request_id
\* of an active report request; after cancel_report has removed a request,
\* incomplete_reports holds no entry for it.
C37_BufferedAreActive ==
    \A id \in DOMAIN incomplete_reports :
       \E i \in 1..Len(report_requests) :
          report_requests[i].report_request_id = id

RECURSIVE QueuedIntervals(_, _)
\* the intervals of the queued reports of a report request
QueuedIntervals(queue, rrid) ==
    IF queue = <<>> THEN 0
    ELSE (IF Head(queue).report_request_id = rrid
          THEN Len(Head(queue).intervals) ELSE 0)
         + QueuedIntervals(Tail(queue), rrid)

\* the intervals the client holds for a report request, buffered or queued
Held(buffer, queue, rrid) ==
    (IF rrid \in DOMAIN buffer THEN Len(buffer[rrid].intervals) ELSE 0)
      + QueuedIntervals(queue, rrid)

\* a suspended execution of update_report resumes and ends without raising
ResumeStep ==
    /\ Len(suspended') < Len(suspended) /\ exc'.kind = "none"

\* C38 as stated: when an execution of update_report that waited for its
\* deferred callback ends, the client holds every interval it held for the
\* report request before and the one the execution sampled, also when
\* cancel_report has sampled the request in between.
C38_NoIntervalLost ==
    [][ResumeStep =>
         Held(incomplete_reports', pending_reports',
              suspended[1].rq.report_request_id)
           >= Held(incomplete_reports, pending_reports,
                   suspended[1].rq.report_request_id) + 1]_vars

\* the report request is active and the running scheduler holds a cron job
\* that samples it
JobKept(rrid) ==
    /\ ~loop_stopped /\ scheduler_running
    /\ \E i \in 1..Len(report_requests) :
          report_requests[i].report_request_id = rrid
    /\ \E j \in 1..Len(jobs) :
          /\ jobs[j].func = "update_report" /\ jobs[j].trigger = "cron"
          /\ jobs[j].rrid = rrid

\* C39 as stated: a report held in incomplete_reports for a report request
\* whose sampling job keeps firing is eventually flushed, whatever the
\* callbacks return.
C39_EventuallyFlushed ==
    ("rq1" \in DOMAIN incomplete_reports)
       ~> ("rq1" \notin DOMAIN incomplete_reports \/ ~JobKept("rq1"))

\* C40 as stated, for what runs after a party registration was cancelled
\* (the reporting attributes have been rebound): a chain or an execution of
\* update_report that ends then ends without an exception, and a pump task
\* that was running does not end for want of its queue.
C40_UsableAfterCancellation ==
    [][nulled # {} =>
         /\ (trace' # trace \/ suspended' # suspended) => exc'.kind = "none"
         /\ \A i \in 1..Len(tasks) : tasks'[i] # "no_queue"]_vars

====
